---- MODULE Spec2Model ----
(***************************************************************************)
(* Reconciliation engine of rekon-deposito: BankBase.reconcile             *)
(* (models/bank_base.py) run on a primary (bank) and a counterparty (BPKH) *)
(* record list.                                                            *)
(*                                                                         *)
(* Amounts are exact fixed-point numbers: an integer n stands for n/Scale  *)
(* units of currency, so "1 unit" is Scale.  The Python code computes on   *)
(* binary floats; the model computes the same expressions exactly, and a   *)
(* percentage (a quotient) is kept as a reduced fraction <<num, den>>.     *)
(***************************************************************************)
EXTENDS Integers, Sequences, FiniteSets

\* ------------------------------------------------------------------ bounds
MaxBank == 2      \* longest primary (bank) record list
MaxBpkh == 3      \* longest counterparty (BPKH) record list
Scale   == 2      \* sub-units per unit of currency (amount n is n/Scale)
MaxCalls == 2     \* most process_reconciliation calls made on one service

\* ------------------------------------------------------------ input domains
\* (nomor_bilyet, nomor_rekening) pairs: one certificate with two accounts
Keys == { <<"A1", "001">>, <<"A1", "002">> }
\* DepositoType values
SETORAN_AWAL  == "SA"
NILAI_MANFAAT == "NM"

\* an absent Optional[datetime]; a date is kept as <<year, month>>
None == <<>>

\* <<nominal_deposito, nominal_imbal_hasil, jenis_deposito, tanggal_penempatan>>
\* of a source row, amounts in sub-units: yields of 0, 0.5 and 1.5 units, so
\* that two yields differ by 0, by less than 1 unit, by exactly 1 unit and by
\* more; two principals, two categories, a missing and two present dates
Rows ==
    { <<2, 0, SETORAN_AWAL,  None>>,
      <<2, 1, SETORAN_AWAL,  <<2025, 4>> >>,
      <<4, 3, NILAI_MANFAAT, <<2025, 5>> >> }

\* RekonStatus values produced by reconcile
MATCHED        == "Matched"
DIFFERENCE     == "Difference"
NOT_FOUND_BANK == "Not Found in Bank"
NOT_FOUND_BPKH == "Not Found in BPKH"

\* DepositoRecord, the fields reconcile reads
DepositoRecord(k, a) ==
    [ nomor_bilyet        |-> k[1],
      nomor_rekening      |-> k[2],
      nominal_deposito    |-> a[1],
      nominal_imbal_hasil |-> a[2],
      jenis_deposito      |-> a[3],
      tanggal_penempatan  |-> a[4] ]

\* the records a parsed source may hold
Records == { DepositoRecord(k, a) : k \in Keys, a \in Rows }

SeqsUpTo(S, n) == UNION { [1..m -> S] : m \in 0..n }

\* ------------------------------------------------------------- arithmetic
Abs(x) == IF x < 0 THEN -x ELSE x

RECURSIVE Gcd(_, _)
Gcd(a, b) == IF b = 0 THEN a ELSE Gcd(b, a % b)

\* what Python's float division raises on a zero divisor, kept as the
\* "fraction" with denominator zero
ZeroDivisionError == <<1, 0>>

\* the quotient n / d: a reduced fraction <<num, den>> with den > 0, or the
\* error when d = 0
Frac(n, d) ==
    IF d = 0 THEN ZeroDivisionError
    ELSE LET g == Gcd(Abs(n), Abs(d))
             s == IF d < 0 THEN -1 ELSE 1
         IN  << (s * n) \div g, (s * d) \div g >>

\* an integer literal of the code as a fraction
Num(n) == <<n, 1>>

\* ------------------------------------------------------------------ state
VARIABLES
    bank_records,    \* argument bank_records of reconcile
    bpkh_records,    \* argument bpkh_records of reconcile
    bpkh_lookup,     \* the local bpkh_lookup when reconcile returns
    rekon_results,   \* the list reconcile returned
    pc,              \* "call" before reconcile ran, "done" after it returned
    banks,           \* MultiRekonService.banks: code -> adapter
    results_cache,   \* MultiRekonService.results_cache: code -> results
    calls,           \* process_reconciliation calls made so far
    call,            \* the latest orchestrator call: its name and arguments
    ret,             \* what the latest orchestrator call returned
    invoked,         \* adapter methods the latest call invoked, in order
    last_success     \* history: code -> results of its latest successful
                     \* process_reconciliation

\* ------------------------------------------------- the dict bpkh_lookup
\* A Python dict: a sequence of [key, rec] entries in insertion order.
Key(rec) == <<rec.nomor_bilyet, rec.nomor_rekening>>

DictHas(d, k) == \E i \in 1..Len(d) : d[i].key = k

DictPos(d, k) == CHOOSE i \in 1..Len(d) : d[i].key = k

DictGet(d, k) == d[DictPos(d, k)].rec

\* (mutant) d[k] = v as a list append: an existing key gets a second entry
DictPut_append(d, k, v) == Append(d, [key |-> k, rec |-> v])

\* d[k] = v : a new key is appended, an existing key keeps its place and
\* takes the new value
DictPut(d, k, v) ==
    IF DictHas(d, k)
    THEN [d EXCEPT ![DictPos(d, k)] = [key |-> k, rec |-> v]]
    ELSE Append(d, [key |-> k, rec |-> v])

\* (mutant) the entry is not removed
DictDel_keep(d, k) == d

\* del d[k]
DictDel(d, k) ==
    LET p == DictPos(d, k)
    IN  SubSeq(d, 1, p - 1) \o SubSeq(d, p + 1, Len(d))

\* { (rec.nomor_bilyet, rec.nomor_rekening): rec for rec in bpkh_records }
RECURSIVE BuildLookup(_, _)
BuildLookup(recs, d) ==
    IF recs = <<>> THEN d
    ELSE BuildLookup(Tail(recs), DictPut(d, Key(Head(recs)), Head(recs)))

\* -------------------------------------------------------------- reconcile
\* strftime('%b-%y') as <<month abbreviation, two-digit year>>, or "N/A"
MonthAbbr ==
    << "Jan", "Feb", "Mar", "Apr", "May", "Jun",
       "Jul", "Aug", "Sep", "Oct", "Nov", "Dec" >>

periode(tanggal_penempatan) ==
    IF tanggal_penempatan # None
    THEN << MonthAbbr[tanggal_penempatan[2]], tanggal_penempatan[1] % 100 >>
    ELSE << "N/A" >>

\* (mutant) the zero check answers 100
pct_selisih_100(selisih, imbal_hasil_bank) ==
    IF imbal_hasil_bank # 0 THEN Frac(selisih * 100, imbal_hasil_bank) ELSE Num(100)

\* (mutant) the zero check left out
pct_selisih_unguarded(selisih, imbal_hasil_bank) ==
    Frac(selisih * 100, imbal_hasil_bank)

\* pct_selisih of a key-matched pair
pct_selisih(selisih, imbal_hasil_bank) ==
    IF imbal_hasil_bank # 0 THEN Frac(selisih * 100, imbal_hasil_bank) ELSE Num(0)

\* (mutant) abs() forgotten: selisih < 1
match_status_noabs(selisih) ==
    IF selisih < 1 * Scale THEN MATCHED ELSE DIFFERENCE

\* (mutant) the threshold made inclusive: abs(selisih) <= 1
match_status_le(selisih) ==
    IF Abs(selisih) <= 1 * Scale THEN MATCHED ELSE DIFFERENCE

\* status of a key-matched pair: abs(selisih) < 1 unit
match_status(selisih) ==
    IF Abs(selisih) < 1 * Scale THEN MATCHED ELSE DIFFERENCE

\* the RekonResult of a bank record whose key is in the lookup
MatchedResult(bank_rec, bpkh_rec) ==
    LET selisih == bank_rec.nominal_imbal_hasil - bpkh_rec.nominal_imbal_hasil
    IN  [ nomor_bilyet       |-> bank_rec.nomor_bilyet,
          nomor_rekening     |-> bank_rec.nomor_rekening,
          nominal_deposito   |-> bank_rec.nominal_deposito,
          imbal_hasil_bank   |-> bank_rec.nominal_imbal_hasil,
          imbal_hasil_bpkh   |-> bpkh_rec.nominal_imbal_hasil,
          selisih            |-> selisih,
          persentase_selisih |-> pct_selisih(selisih, bank_rec.nominal_imbal_hasil),
          status             |-> match_status(selisih),
          jenis_deposito     |-> bank_rec.jenis_deposito,
          periode            |-> periode(bank_rec.tanggal_penempatan),
          notes              |-> "" ]

\* the RekonResult of a bank record whose key is not in the lookup
NotFoundBpkhResult(bank_rec) ==
    [ nomor_bilyet       |-> bank_rec.nomor_bilyet,
      nomor_rekening     |-> bank_rec.nomor_rekening,
      nominal_deposito   |-> bank_rec.nominal_deposito,
      imbal_hasil_bank   |-> bank_rec.nominal_imbal_hasil,
      imbal_hasil_bpkh   |-> 0,
      selisih            |-> bank_rec.nominal_imbal_hasil,
      persentase_selisih |-> Num(100),
      status             |-> NOT_FOUND_BPKH,
      jenis_deposito     |-> bank_rec.jenis_deposito,
      periode            |-> periode(bank_rec.tanggal_penempatan),
      notes              |-> "Record not found in BPKH data" ]

\* the RekonResult of a BPKH record left in the lookup
NotFoundBankResult(bpkh_rec) ==
    [ nomor_bilyet       |-> bpkh_rec.nomor_bilyet,
      nomor_rekening     |-> bpkh_rec.nomor_rekening,
      nominal_deposito   |-> bpkh_rec.nominal_deposito,
      imbal_hasil_bank   |-> 0,
      imbal_hasil_bpkh   |-> bpkh_rec.nominal_imbal_hasil,
      selisih            |-> -bpkh_rec.nominal_imbal_hasil,
      persentase_selisih |-> Num(-100),
      status             |-> NOT_FOUND_BANK,
      jenis_deposito     |-> bpkh_rec.jenis_deposito,
      periode            |-> periode(bpkh_rec.tanggal_penempatan),
      notes              |-> "Record not found in Bank data" ]

\* for bank_rec in bank_records: ...   (results and the lookup after the loop)
RECURSIVE MatchLoop(_, _, _)
MatchLoop(recs, lookup, results) ==
    IF recs = <<>> THEN [results |-> results, lookup |-> lookup]
    ELSE LET bank_rec == Head(recs)
             key      == Key(bank_rec)
         IN  IF DictHas(lookup, key)
             THEN MatchLoop(Tail(recs), DictDel(lookup, key),
                            Append(results, MatchedResult(bank_rec, DictGet(lookup, key))))
             ELSE MatchLoop(Tail(recs), lookup,
                            Append(results, NotFoundBpkhResult(bank_rec)))

\* (mutant) the loop over the remaining lookup entries left out
LeftoverResults_none(lookup) == <<>>

\* for bpkh_rec in bpkh_lookup.values(): ...
LeftoverResults(lookup) ==
    [i \in 1..Len(lookup) |-> NotFoundBankResult(lookup[i].rec)]

\* (mutant) the result list kept between calls instead of created afresh
results_kept == rekon_results

\* results = []: the list a call of reconcile starts from
results_new == <<>>

\* BankBase.reconcile: the results, and the lookup as the matching loop left it
reconcile(bank_recs, bpkh_recs) ==
    LET after == MatchLoop(bank_recs, BuildLookup(bpkh_recs, <<>>), results_new)
    IN  [ results  |-> after.results \o LeftoverResults(after.lookup),
          leftover |-> after.lookup ]

\* ------------------------------------------- the engine alone: one call
\* the orchestrator's variables; the specification of reconcile alone never
\* touches them
svc_vars == <<banks, results_cache, calls, call, ret, invoked, last_success>>

vars == <<bank_records, bpkh_records, bpkh_lookup, rekon_results, pc,
          banks, results_cache, calls, call, ret, invoked, last_success>>

Init ==
    /\ bank_records \in SeqsUpTo(Records, MaxBank)
    /\ bpkh_records \in SeqsUpTo(Records, MaxBpkh)
    /\ bpkh_lookup = <<>>
    /\ rekon_results = <<>>
    /\ pc = "call"
    /\ banks = <<>>
    /\ results_cache = <<>>
    /\ calls = 0
    /\ call = <<>>
    /\ ret = <<>>
    /\ invoked = <<>>
    /\ last_success = <<>>

Reconcile ==
    /\ pc = "call"
    /\ LET out == reconcile(bank_records, bpkh_records)
       IN  /\ rekon_results' = out.results
           /\ bpkh_lookup' = out.leftover
    /\ pc' = "done"
    /\ UNCHANGED <<bank_records, bpkh_records>>
    /\ UNCHANGED svc_vars

Next == Reconcile

Spec == Init /\ [][Next]_vars

\* ---------------------------------------------- vocabulary of the properties
Returned == pc = "done"

NBank == Len(bank_records)
NBpkh == Len(bpkh_records)

BankKeys == { Key(bank_records[i]) : i \in 1..NBank }
BpkhKeys == { Key(bpkh_records[j]) : j \in 1..NBpkh }

ResultKey(r) == <<r.nomor_bilyet, r.nomor_rekening>>

\* positions of the results that follow the one-per-bank-record part
TailPos == (NBank + 1)..Len(rekon_results)

\* indices of the BPKH records of key k, and how many results after the
\* bank part carry key k
BpkhOfKey(k) == { j \in 1..NBpkh : Key(bpkh_records[j]) = k }
TailOfKey(k) == { p \in TailPos : ResultKey(rekon_results[p]) = k }

\* no earlier bank record has the key of bank record i
FirstOfKey(i) == \A h \in 1..(i - 1) : Key(bank_records[h]) # Key(bank_records[i])

\* bank record i finds its key in the lookup: the key is a BPKH key and no
\* earlier bank record consumed it
KeyMatched(i) == Key(bank_records[i]) \in BpkhKeys /\ FirstOfKey(i)

UniqueKeys(recs) ==
    \A i, j \in 1..Len(recs) : i # j => Key(recs[i]) # Key(recs[j])

\* |a - b| < 1 unit of currency
Within1(a, b) == Abs(a - b) < Scale
ClassOf(a, b) == IF Within1(a, b) THEN MATCHED ELSE DIFFERENCE

\* ------------------------------------------------------------------- C1
\* C1 as stated: every bank record whose key occurs among the BPKH records is
\* classified Matched iff its yield is within 1 of the yield of a BPKH record
\* of that key, and Difference otherwise.
C1_AsStated ==
    Returned =>
        \A i \in 1..NBank :
            Key(bank_records[i]) \in BpkhKeys =>
                \E j \in BpkhOfKey(Key(bank_records[i])) :
                    rekon_results[i].status =
                        ClassOf(bank_records[i].nominal_imbal_hasil,
                                bpkh_records[j].nominal_imbal_hasil)

\* C1 amended: every bank record whose key is still in the lookup when it is
\* reached (a BPKH key no earlier bank record bore) is paired with a BPKH
\* record of that key and is classified Matched iff its yield is within 1 of
\* that record's yield, and Difference otherwise; a later bank record of
\* the same key is classified Not Found in BPKH.
C1_MatchedIffWithin1 ==
    Returned =>
        \A i \in 1..NBank :
            /\ KeyMatched(i) =>
                \E j \in BpkhOfKey(Key(bank_records[i])) :
                    /\ rekon_results[i].imbal_hasil_bpkh = bpkh_records[j].nominal_imbal_hasil
                    /\ rekon_results[i].imbal_hasil_bank = bank_records[i].nominal_imbal_hasil
                    /\ rekon_results[i].status =
                           ClassOf(bank_records[i].nominal_imbal_hasil,
                                   bpkh_records[j].nominal_imbal_hasil)
            /\ (Key(bank_records[i]) \in BpkhKeys /\ ~FirstOfKey(i)) =>
                rekon_results[i].status = NOT_FOUND_BPKH

\* a run with a pair matched on a non-zero variance below 1, a pair whose
\* variance is exactly 1 classified Difference
C1_Witness ==
    /\ Returned
    /\ \E i, h \in 1..NBank :
        /\ KeyMatched(i) /\ KeyMatched(h)
        /\ rekon_results[i].status = MATCHED
        /\ rekon_results[i].selisih # 0
        /\ rekon_results[h].status = DIFFERENCE
        /\ Abs(rekon_results[h].selisih) = Scale

\* ------------------------------------------------------------------- C2
\* C2: with keys unique inside each input, every key of either input is the
\* key of exactly one result and there are as many results as distinct keys.
C2_EachKeyOnce ==
    (Returned /\ UniqueKeys(bank_records) /\ UniqueKeys(bpkh_records)) =>
        /\ Len(rekon_results) = Cardinality(BankKeys \cup BpkhKeys)
        /\ \A k \in BankKeys \cup BpkhKeys :
               Cardinality({ p \in 1..Len(rekon_results) :
                               ResultKey(rekon_results[p]) = k }) = 1

\* unique keys on both sides, one key shared, one key on one side only
C2_Witness ==
    /\ Returned
    /\ UniqueKeys(bank_records) /\ UniqueKeys(bpkh_records)
    /\ BankKeys \cap BpkhKeys # {}
    /\ BpkhKeys \ BankKeys # {}
    /\ Len(rekon_results) = 2

\* ------------------------------------------------------------------- C3
Min(S) == CHOOSE x \in S : \A y \in S : x <= y

\* the first bank record of key k
FirstBank(k) == Min({ i \in 1..NBank : Key(bank_records[i]) = k })

\* C3 as stated: when several BPKH records share a key that a bank record
\* bears, the bank record is matched against the first of them in source
\* order and every further one is emitted as its own Not-Found-in-Bank result.
C3_AsStated ==
    Returned =>
        \A k \in BankKeys \cap BpkhKeys :
            Cardinality(BpkhOfKey(k)) >= 2 =>
                LET i  == FirstBank(k)
                    j1 == Min(BpkhOfKey(k))
                IN  /\ rekon_results[i].imbal_hasil_bpkh = bpkh_records[j1].nominal_imbal_hasil
                    /\ rekon_results[i].status =
                           ClassOf(bank_records[i].nominal_imbal_hasil,
                                   bpkh_records[j1].nominal_imbal_hasil)
                    /\ \A j \in BpkhOfKey(k) \ {j1} :
                           \E p \in TailOfKey(k) :
                               /\ rekon_results[p].status = NOT_FOUND_BANK
                               /\ rekon_results[p].imbal_hasil_bpkh =
                                      bpkh_records[j].nominal_imbal_hasil
                    /\ Cardinality(TailOfKey(k)) = Cardinality(BpkhOfKey(k)) - 1

\* ------------------------------------------------------------------- C4
\* the fixed values of the two kinds of not-found result
IsNotFoundBpkh(r, yield) ==
    /\ r.imbal_hasil_bank = yield
    /\ r.imbal_hasil_bpkh = 0
    /\ r.selisih = yield
    /\ r.persentase_selisih = <<100, 1>>
    /\ r.status = NOT_FOUND_BPKH

IsNotFoundBank(r, yield) ==
    /\ r.imbal_hasil_bank = 0
    /\ r.imbal_hasil_bpkh = yield
    /\ r.selisih = -yield
    /\ r.persentase_selisih = <<-100, 1>>
    /\ r.status = NOT_FOUND_BANK

\* C4 as stated: a bank record whose key is absent from the lookup gives a
\* Not-Found-in-BPKH result with BPKH yield 0, variance = bank yield and
\* percentage 100; every BPKH record not consumed by a bank record gives a
\* Not-Found-in-Bank result with bank yield 0, variance = -BPKH yield and
\* percentage -100 (so a key has one such result per BPKH record, less the
\* one a bank record of that key consumed).
C4_AsStated ==
    Returned =>
        /\ \A i \in 1..NBank :
               ~KeyMatched(i) =>
                   IsNotFoundBpkh(rekon_results[i], bank_records[i].nominal_imbal_hasil)
        /\ \A p \in TailPos :
               \E j \in BpkhOfKey(ResultKey(rekon_results[p])) :
                   IsNotFoundBank(rekon_results[p], bpkh_records[j].nominal_imbal_hasil)
        /\ \A k \in BpkhKeys :
               Cardinality(TailOfKey(k)) =
                   Cardinality(BpkhOfKey(k)) - (IF k \in BankKeys THEN 1 ELSE 0)

\* ------------------------------------------------------------------- C5
\* C5 as stated: every result, key-matched or not-found, is classified
\* Matched iff |variance| < 1.
C5_AsStated ==
    Returned =>
        \A p \in 1..Len(rekon_results) :
            rekon_results[p].status = MATCHED <=> Abs(rekon_results[p].selisih) < Scale

\* C5 amended: a key-matched result is classified Matched iff |variance| < 1
\* and Difference otherwise; a not-found result is classified not-found
\* whatever its variance, so Matched implies |variance| < 1 for every result
\* but |variance| < 1 does not imply Matched.
C5_MatchedIffSmallVariance ==
    Returned =>
        \A p \in 1..Len(rekon_results) :
            LET r == rekon_results[p]
            IN  /\ r.selisih = r.imbal_hasil_bank - r.imbal_hasil_bpkh
                /\ r.status = MATCHED => Abs(r.selisih) < Scale
                /\ IF p <= NBank /\ KeyMatched(p)
                   THEN r.status = (IF Abs(r.selisih) < Scale THEN MATCHED ELSE DIFFERENCE)
                   ELSE r.status \in {NOT_FOUND_BANK, NOT_FOUND_BPKH}

\* a not-found result of each kind whose |variance| is below 1, beside a
\* key-matched result classified Matched
C5_Witness ==
    /\ Returned
    /\ \E p, q, i \in 1..Len(rekon_results) :
        /\ rekon_results[p].status = NOT_FOUND_BPKH
        /\ Abs(rekon_results[p].selisih) < Scale
        /\ rekon_results[q].status = NOT_FOUND_BANK
        /\ Abs(rekon_results[q].selisih) < Scale
        /\ rekon_results[i].status = MATCHED

\* ------------------------------------------------------------------- C6
\* C6 as stated: the results are one result per bank record in bank input
\* order, followed by Not-Found-in-Bank results of BPKH records in the order
\* these records have in the BPKH input.
C6_AsStated ==
    Returned =>
        /\ Len(rekon_results) >= NBank
        /\ \A i \in 1..NBank :
               /\ ResultKey(rekon_results[i]) = Key(bank_records[i])
               /\ rekon_results[i].nominal_deposito = bank_records[i].nominal_deposito
               /\ rekon_results[i].imbal_hasil_bank = bank_records[i].nominal_imbal_hasil
               /\ rekon_results[i].status # NOT_FOUND_BANK
        /\ \E f \in [TailPos -> 1..NBpkh] :
               /\ \A p, q \in TailPos : p < q => f[p] < f[q]
               /\ \A p \in TailPos :
                      /\ ResultKey(rekon_results[p]) = Key(bpkh_records[f[p]])
                      /\ rekon_results[p].nominal_deposito = bpkh_records[f[p]].nominal_deposito
                      /\ IsNotFoundBank(rekon_results[p], bpkh_records[f[p]].nominal_imbal_hasil)

\* ------------------------------------------------------------------- C7
\* C7: a lookup entry matched to a bank record is removed and never matched
\* again: the bank record that finds the key gets a Matched or Difference
\* result, every later bank record of that key is Not Found in BPKH, the key
\* is no longer in the lookup and no result after the bank part carries it.
C7_ConsumedOnce ==
    Returned =>
        \A i \in 1..NBank :
            KeyMatched(i) =>
                /\ rekon_results[i].status \in {MATCHED, DIFFERENCE}
                /\ \A h \in (i + 1)..NBank :
                       Key(bank_records[h]) = Key(bank_records[i]) =>
                           IsNotFoundBpkh(rekon_results[h],
                                          bank_records[h].nominal_imbal_hasil)
                /\ ~DictHas(bpkh_lookup, Key(bank_records[i]))
                /\ TailOfKey(Key(bank_records[i])) = {}

\* two bank records of one BPKH key: the first is paired, the second is not
C7_Witness ==
    /\ Returned
    /\ \E i, h \in 1..NBank :
        /\ i < h
        /\ Key(bank_records[h]) = Key(bank_records[i])
        /\ KeyMatched(i)
        /\ rekon_results[i].status = MATCHED
        /\ rekon_results[h].status = NOT_FOUND_BPKH
        /\ Cardinality(BpkhOfKey(Key(bank_records[i]))) >= 2

\* ------------------------------------------------------------------- C8
RECURSIVE SumSeq(_)
SumSeq(q) == IF q = <<>> THEN 0 ELSE Head(q) + SumSeq(Tail(q))

SumPrincipal(q) == SumSeq([i \in 1..Len(q) |-> q[i].nominal_deposito])

\* the principal of the BPKH records other than those at the indices in J
SumPrincipalBut(J) ==
    SumSeq([j \in 1..NBpkh |->
                IF j \in J THEN 0 ELSE bpkh_records[j].nominal_deposito])

\* C8 as stated: the principal summed over the results equals the principal
\* summed over all bank records plus the principal summed over the BPKH
\* records left unmatched, i.e. all BPKH records but one per key that a bank
\* record bears (whichever record of that key was the one matched).
C8_AsStated ==
    Returned =>
        LET MK == BankKeys \cap BpkhKeys
        IN  \E m \in [MK -> 1..NBpkh] :
                /\ \A k \in MK : m[k] \in BpkhOfKey(k)
                /\ SumPrincipal(rekon_results) =
                       SumPrincipal(bank_records)
                           + SumPrincipalBut({ m[k] : k \in MK })

\* ------------------------------------------------------------------- C9
\* a key-matched pair whose bank yield is zero and whose yields differ by at
\* least 1
ZeroYieldMismatch(i) ==
    /\ KeyMatched(i)
    /\ bank_records[i].nominal_imbal_hasil = 0
    /\ Abs(rekon_results[i].selisih) >= Scale

\* C9 as stated: a key-matched pair with bank yield zero and a mismatch has
\* variance percentage 100.
C9_AsStated ==
    Returned =>
        \A i \in 1..NBank :
            ZeroYieldMismatch(i) => rekon_results[i].persentase_selisih = <<100, 1>>

\* C9 amended: a key-matched pair with bank yield zero and a mismatch has
\* variance percentage 0 and is classified Difference.
C9_ZeroYieldPctIsZero ==
    Returned =>
        \A i \in 1..NBank :
            ZeroYieldMismatch(i) =>
                /\ rekon_results[i].persentase_selisih = <<0, 1>>
                /\ rekon_results[i].status = DIFFERENCE
                /\ rekon_results[i].selisih = -rekon_results[i].imbal_hasil_bpkh

C9_Witness ==
    /\ Returned
    /\ \E i \in 1..NBank : ZeroYieldMismatch(i)

\* ------------------------------------------------------------------ C10
\* C10: for a key-matched pair the variance percentage is
\* variance / bank yield x 100 when the bank yield is non-zero and 0 when it
\* is zero, and no division by a zero bank yield takes place.
C10_PctOfMatchedPair ==
    Returned =>
        \A i \in 1..NBank :
            KeyMatched(i) =>
                LET r   == rekon_results[i]
                    y   == bank_records[i].nominal_imbal_hasil
                    pct == r.persentase_selisih
                IN  /\ pct # ZeroDivisionError
                    /\ pct[2] > 0
                    /\ r.selisih = y - r.imbal_hasil_bpkh
                    /\ y # 0 => pct[1] * y = r.selisih * 100 * pct[2]
                    /\ y = 0 => pct = <<0, 1>>

\* one pair with a zero bank yield and a non-zero variance, one pair whose
\* percentage is not a whole number (200/3)
C10_Witness ==
    /\ Returned
    /\ \E i, h \in 1..NBank :
        /\ KeyMatched(i) /\ KeyMatched(h)
        /\ bank_records[i].nominal_imbal_hasil = 0
        /\ rekon_results[i].selisih # 0
        /\ bank_records[h].nominal_imbal_hasil # 0
        /\ rekon_results[h].persentase_selisih[2] # 1

\* ------------------------------------- what reconcile keeps of C4, C6, C8
\* Beside the violated statements above, in terms of the lookup as the code
\* builds it: one result per bank record in input order, then one
\* Not-Found-in-Bank result per entry left in the lookup, in entry order,
\* each with the fixed values; and the principal of the results is that of
\* the bank records plus that of the entries left.
LookupResultsShape ==
    Returned =>
        /\ Len(rekon_results) = NBank + Len(bpkh_lookup)
        /\ \A i \in 1..NBank :
               /\ ResultKey(rekon_results[i]) = Key(bank_records[i])
               /\ ~KeyMatched(i) =>
                      IsNotFoundBpkh(rekon_results[i], bank_records[i].nominal_imbal_hasil)
        /\ \A e \in 1..Len(bpkh_lookup) :
               /\ ResultKey(rekon_results[NBank + e]) = bpkh_lookup[e].key
               /\ IsNotFoundBank(rekon_results[NBank + e],
                                 bpkh_lookup[e].rec.nominal_imbal_hasil)
        /\ SumPrincipal(rekon_results) =
               SumPrincipal(bank_records)
                   + SumSeq([e \in 1..Len(bpkh_lookup) |->
                                 bpkh_lookup[e].rec.nominal_deposito])

(***************************************************************************)
(* The adapters' parsers and the orchestrator MultiRekonService            *)
(* (services/rekon_service.py).                                            *)
(*                                                                         *)
(* A source file is what pandas reads from it: whether it can be read at   *)
(* all, and its data rows.  Of a row the model keeps the two identity      *)
(* cells as read (missing column, empty cell, or text with or without      *)
(* surrounding blanks) and the remaining cells as _parse_number,           *)
(* _parse_date and the type mapping return them.                           *)
(***************************************************************************)

\* ------------------------------------------------------------ the adapters
\* BankConfig.bank_code and bank_name of the four adapters
BankBTPN           == [bank_code |-> "BTPN", bank_name |-> "Bank BTPN Syariah"]
BankBPS            == [bank_code |-> "BPS",  bank_name |-> "Bank Pembangunan Syariah"]
BankBNISyariah     == [bank_code |-> "BNIS", bank_name |-> "BNI Syariah"]
BankMandiriSyariah == [bank_code |-> "MSI",  bank_name |-> "Bank Mandiri Syariah"]

Adapters == { BankBTPN, BankBPS, BankBNISyariah, BankMandiriSyariah }

\* ----------------------------------------------------------------- cells
\* row.get(column) of an identity column: the sheet has no such column, the
\* cell is empty (NaN), or it holds the text body, padded with blanks or not
NoColumn        == [kind |-> "absent", body |-> "",   pad |-> FALSE]
NaN             == [kind |-> "nan",    body |-> "",   pad |-> FALSE]
Text(body, pad) == [kind |-> "text",   body |-> body, pad |-> pad]

\* pd.isna(row.get(column)): row.get answers None for a missing column
isna(cell) == cell.kind \in {"absent", "nan"}

\* str(row.get(column, default)).strip(): the text without its blanks, "nan"
\* for an empty cell, the default for a missing column
str_strip(cell, default) ==
    CASE cell.kind = "absent" -> default
      [] cell.kind = "nan"    -> "nan"
      [] OTHER                -> cell.body

\* a data row of a sheet
Row(bilyet, rekening, a) == [bilyet |-> bilyet, rekening |-> rekening, data |-> a]

\* the result of handling one row: the record appended, or nothing
Skipped      == << >>
Appended(k, a) == << DepositoRecord(k, a) >>

\* BankBTPN.parse_bank_data / parse_bpkh_data, one row
BTPN_row(row) ==
    IF isna(row.bilyet) \/ isna(row.rekening) THEN Skipped
    ELSE Appended(<<str_strip(row.bilyet, ""), str_strip(row.rekening, "")>>, row.data)

\* BankBPS.parse_bank_data / parse_bpkh_data, one row
BPS_row(row) ==
    LET nomor_bilyet == str_strip(row.bilyet, "")
    IN  IF nomor_bilyet = "" \/ nomor_bilyet \in {"", "nan", "None"} THEN Skipped
        ELSE Appended(<<nomor_bilyet, str_strip(row.rekening, nomor_bilyet)>>, row.data)

\* BankBNISyariah and BankMandiriSyariah, parse_bank_data / parse_bpkh_data,
\* one row
BNIS_row(row) ==
    LET nomor_bilyet == str_strip(row.bilyet, "")
    IN  IF nomor_bilyet = "" \/ nomor_bilyet = "nan" THEN Skipped
        ELSE Appended(<<nomor_bilyet, str_strip(row.rekening, "")>>, row.data)

MSI_row(row) ==
    LET nomor_bilyet == str_strip(row.bilyet, "")
    IN  IF nomor_bilyet = "" \/ nomor_bilyet = "nan" THEN Skipped
        ELSE Appended(<<nomor_bilyet, str_strip(row.rekening, "")>>, row.data)

parse_row(bank, row) ==
    CASE bank.bank_code = "BTPN" -> BTPN_row(row)
      [] bank.bank_code = "BPS"  -> BPS_row(row)
      [] bank.bank_code = "BNIS" -> BNIS_row(row)
      [] OTHER                   -> MSI_row(row)

\* for _, row in df.iterrows(): ... records.append(record)
RECURSIVE parse_rows(_, _)
parse_rows(bank, rows) ==
    IF rows = <<>> THEN <<>>
    ELSE parse_row(bank, Head(rows)) \o parse_rows(bank, Tail(rows))

\* a source file: pandas cannot open it, or it holds rows
Unreadable  == [readable |-> FALSE, rows |-> <<>>]
Sheet(rows) == [readable |-> TRUE,  rows |-> rows]

\* an exception (str(e) is kept as a tuple of words), and the two ways a
\* call ends
Exception(type, msg) == [type |-> type, msg |-> msg]
Raise(e)             == [raised |-> TRUE,  value |-> e]
Return(v)            == [raised |-> FALSE, value |-> v]

\* a cell of a date column holding a date, kept as its day number
DateCell(day) == [kind |-> "date", body |-> "", pad |-> FALSE, day |-> day]

\* row.get(column): None, which pd.isna takes as an empty cell, for a sheet
\* without the column
row_get(row, column) == IF column \in DOMAIN row THEN row[column] ELSE NoColumn

\* _parse_date: None for an empty cell and for what no format reads
parse_date(cell) == IF cell.kind = "date" THEN << cell.day >> ELSE None

\* periode_hari = None
\* if tanggal_penempatan and tanggal_jatuh_tempo:
\*     periode_hari = (tanggal_jatuh_tempo - tanggal_penempatan).days
holding_period(tanggal_penempatan, tanggal_jatuh_tempo) ==
    IF tanggal_penempatan # None /\ tanggal_jatuh_tempo # None
    THEN << tanggal_jatuh_tempo[1] - tanggal_penempatan[1] >>
    ELSE None

\* the record of a bank row: DepositoRecord(..., periode_hari=periode_hari)
WithPeriod(record, periode_hari) ==
    [ nomor_bilyet        |-> record.nomor_bilyet,
      nomor_rekening      |-> record.nomor_rekening,
      nominal_deposito    |-> record.nominal_deposito,
      nominal_imbal_hasil |-> record.nominal_imbal_hasil,
      jenis_deposito      |-> record.jenis_deposito,
      tanggal_penempatan  |-> record.tanggal_penempatan,
      periode_hari        |-> periode_hari ]

\* one row of parse_bank_data: the record with its holding period
parse_bank_row(bank, row) ==
    IF parse_row(bank, row) = Skipped THEN Skipped
    ELSE << WithPeriod(parse_row(bank, row)[1],
                       holding_period(parse_date(row_get(row, "penempatan")),
                                      parse_date(row_get(row, "jatuh_tempo")))) >>

RECURSIVE parse_bank_rows(_, _)
parse_bank_rows(bank, rows) ==
    IF rows = <<>> THEN <<>>
    ELSE parse_bank_row(bank, Head(rows)) \o parse_bank_rows(bank, Tail(rows))

\* parse_bank_data(file_path) and parse_bpkh_data(file_path) of an adapter:
\* pd.ExcelFile / pd.read_excel raise on a file they cannot open
parse_bank_data(bank, file) ==
    IF ~file.readable THEN Raise(Exception("FileNotFoundError", << "cannot open", "bank_file_path" >>))
    ELSE Return(parse_bank_rows(bank, file.rows))

parse_bpkh_data(bank, file) ==
    IF ~file.readable THEN Raise(Exception("FileNotFoundError", << "cannot open", "bpkh_file_path" >>))
    ELSE Return(parse_rows(bank, file.rows))

\* ------------------------------------------- fractions, compared and scaled
FracLt(a, b) == a[1] * b[2] < b[1] * a[2]
FracLe(a, b) == a[1] * b[2] <= b[1] * a[2]
FracAbs(a)   == << Abs(a[1]), a[2] >>
FracAdd(a, b) == Frac(a[1] * b[2] + b[1] * a[2], a[2] * b[2])
FracSub(a, b) == Frac(a[1] * b[2] - b[1] * a[2], a[2] * b[2])
FracMul(a, b) == Frac(a[1] * b[1], a[2] * b[2])
FracMax(a, b) == IF FracLt(a, b) THEN b ELSE a

\* ------------------------------------------------ summary and detail table
\* members of DepositoType, in definition order
DepositoType == << "SA", "SL", "NM", "LPS", "DAU" >>

\* [r for r in rekon_results if r.status == status]
WithStatus(results, status) == SelectSeq(results, LAMBDA r : r.status = status)

\* [r for r in rekon_results if r.jenis_deposito == dep_type]
OfType(results, dep_type) == SelectSeq(results, LAMBDA r : r.jenis_deposito = dep_type)

\* sum(r.<field> for r in results)
SumField(results, field) == SumSeq([i \in 1..Len(results) |-> results[i][field]])

\* datetime.now() of read number n in call number k of the orchestrator
now(k, n) == << k, n >>

\* (mutant) match_rate without the check of total_records
match_rate_unguarded(matched_records, total_records) ==
    Frac(matched_records * 100, total_records)

\* 'match_rate' of generate_summary and of calculate_kpis
match_rate(matched_records, total_records) ==
    IF total_records > 0 THEN Frac(matched_records * 100, total_records) ELSE Num(0)

\* (mutant) pct_selisih of the summary without the check of total_bank
summary_pct_selisih_unguarded(total_selisih, total_bank) ==
    Frac(total_selisih * 100, total_bank)

\* 'pct_selisih' of generate_summary
summary_pct_selisih(total_selisih, total_bank) ==
    IF total_bank # 0 THEN Frac(total_selisih * 100, total_bank) ELSE Num(0)

\* by_type[dep_type.value] of generate_summary
TypeSummary(type_results) ==
    [ count          |-> Len(type_results),
      total_deposito |-> SumField(type_results, "nominal_deposito"),
      total_bank     |-> SumField(type_results, "imbal_hasil_bank"),
      total_bpkh     |-> SumField(type_results, "imbal_hasil_bpkh"),
      selisih        |-> SumField(type_results, "selisih") ]

\* (mutant) the check "if type_results:" left out: every member is listed
listed_types_all(results) == { DepositoType[u] : u \in 1..Len(DepositoType) }

\* for dep_type in DepositoType: ... if type_results: the members listed
listed_types(results) ==
    { DepositoType[u] : u \in { v \in 1..Len(DepositoType) :
                                   OfType(results, DepositoType[v]) # << >> } }

\* BankBase.generate_summary, called in call number k
generate_summary(bank, results, k) ==
    LET total_records   == Len(results)
        matched_records == Len(WithStatus(results, MATCHED))
        diff_records    == Len(WithStatus(results, DIFFERENCE))
        total_deposito  == SumField(results, "nominal_deposito")
        total_bank      == SumField(results, "imbal_hasil_bank")
        total_bpkh      == SumField(results, "imbal_hasil_bpkh")
        total_selisih   == SumField(results, "selisih")
        types           == listed_types(results)
    IN  [ bank_code              |-> bank.bank_code,
          bank_name              |-> bank.bank_name,
          total_records          |-> total_records,
          matched_records        |-> matched_records,
          difference_records     |-> diff_records,
          match_rate             |-> match_rate(matched_records, total_records),
          total_deposito         |-> total_deposito,
          total_imbal_hasil_bank |-> total_bank,
          total_imbal_hasil_bpkh |-> total_bpkh,
          total_selisih          |-> total_selisih,
          pct_selisih            |-> summary_pct_selisih(total_selisih, total_bank),
          by_type                |-> [t \in types |-> TypeSummary(OfType(results, t))],
          timestamp              |-> now(k, 1) ]

\* RekonResult.get_priority
get_priority(result) ==
    LET abs_pct == FracAbs(result.persentase_selisih)
    IN  IF FracLt(abs_pct, <<1, 10>>) THEN "Low"
        ELSE IF FracLt(abs_pct, <<1, 2>>) THEN "Medium"
        ELSE IF FracLt(abs_pct, Num(1)) THEN "High"
        ELSE "Critical"

\* BankBase.results_to_dataframe: one row per result, in order
results_to_dataframe(bank, results) ==
    [ i \in 1..Len(results) |->
        [ Bank             |-> bank.bank_name,
          Nomor_Bilyet     |-> results[i].nomor_bilyet,
          Nomor_Rekening   |-> results[i].nomor_rekening,
          Jenis_Deposito   |-> results[i].jenis_deposito,
          Nominal_Deposito |-> results[i].nominal_deposito,
          Imbal_Hasil_Bank |-> results[i].imbal_hasil_bank,
          Imbal_Hasil_BPKH |-> results[i].imbal_hasil_bpkh,
          Selisih          |-> results[i].selisih,
          Selisih_pct      |-> results[i].persentase_selisih,
          Status           |-> results[i].status,
          Priority         |-> get_priority(results[i]),
          Periode          |-> results[i].periode,
          Notes            |-> results[i].notes ] ]

\* pd.DataFrame(): the empty table
EmptyDataFrame == << >>

\* ------------------------------------------------- process_reconciliation
\* an adapter method made to raise in a call, beside the parsers' own errors
\* on a file they cannot open ("none": no method is)
Faults == { "none", "reconcile", "generate_summary", "results_to_dataframe" }

AdapterError(method) == Exception("RuntimeError", << "adapter error", method >>)

\* how the try block ends, and what it leaves behind: the cache, the adapter
\* methods invoked, and the arguments and locals of reconcile if it ran
Ended(end, cache, methods, ran) ==
    [end |-> end, cache |-> cache, invoked |-> methods, ran |-> ran]

NotRun == << >>
Ran(bank_recs, bpkh_recs, out) ==
    << [bank_records |-> bank_recs, bpkh_records |-> bpkh_recs, out |-> out] >>

\* the dict returned at the end of the try block
SuccessOutcome(bank_code, bank, summary, results, df_results, n_bank, n_bpkh, k) ==
    [ success            |-> TRUE,
      bank_code          |-> bank_code,
      bank_name          |-> bank.bank_name,
      summary            |-> summary,
      results            |-> results,
      df_results         |-> df_results,
      bank_records_count |-> n_bank,
      bpkh_records_count |-> n_bpkh,
      timestamp          |-> now(k, 2) ]

\* the dict returned by the except clause
FailureOutcome(bank_code, e, k) ==
    [ success   |-> FALSE,
      bank_code |-> bank_code,
      error     |-> e.msg,
      timestamp |-> now(k, 2) ]

\* (mutant) the cache written under one fixed key
cache_key_fixed(bank_code) == "BTPN"

\* the key of self.results_cache[bank_code] = rekon_results
cache_key(bank_code) == bank_code

\* (mutant) the try block with the cache written before generate_summary
try_body_cache_first(registry, cache, bank_code, bank_file_path, bpkh_file_path, fault, k) ==
    IF ~DictHas(registry, bank_code)
    THEN Ended(Raise(Exception("ValueError", << "Bank", bank_code, "not supported" >>)),
               cache, << >>, NotRun)
    ELSE
    LET bank == DictGet(registry, bank_code)
        p1   == parse_bank_data(bank, bank_file_path)
        m1   == << "parse_bank_data" >>
    IN  IF p1.raised THEN Ended(p1, cache, m1, NotRun) ELSE
    LET p2   == parse_bpkh_data(bank, bpkh_file_path)
        m2   == Append(m1, "parse_bpkh_data")
    IN  IF p2.raised THEN Ended(p2, cache, m2, NotRun) ELSE
    LET m3   == Append(m2, "reconcile")
    IN  IF fault = "reconcile"
        THEN Ended(Raise(AdapterError("reconcile")), cache, m3, NotRun) ELSE
    LET out  == reconcile(p1.value, p2.value)
        ran  == Ran(p1.value, p2.value, out)
        m4   == Append(m3, "generate_summary")
    IN  IF fault = "generate_summary"
        THEN Ended(Raise(AdapterError("generate_summary")),
                   DictPut(cache, cache_key(bank_code), out.results), m4, ran) ELSE
    LET summary == generate_summary(bank, out.results, k)
        cached  == DictPut(cache, cache_key(bank_code), out.results)
        m5      == Append(m4, "results_to_dataframe")
    IN  IF fault = "results_to_dataframe"
        THEN Ended(Raise(AdapterError("results_to_dataframe")), cached, m5, ran) ELSE
    LET df_results == results_to_dataframe(bank, out.results)
    IN  Ended(Return(SuccessOutcome(bank_code, bank, summary, out.results, df_results,
                                    Len(p1.value), Len(p2.value), k)),
              cached, m5, ran)

\* the body of the try block of process_reconciliation, call number k
try_body(registry, cache, bank_code, bank_file_path, bpkh_file_path, fault, k) ==
    IF ~DictHas(registry, bank_code)
    THEN Ended(Raise(Exception("ValueError", << "Bank", bank_code, "not supported" >>)),
               cache, << >>, NotRun)
    ELSE
    LET bank == DictGet(registry, bank_code)
        p1   == parse_bank_data(bank, bank_file_path)
        m1   == << "parse_bank_data" >>
    IN  IF p1.raised THEN Ended(p1, cache, m1, NotRun) ELSE
    LET p2   == parse_bpkh_data(bank, bpkh_file_path)
        m2   == Append(m1, "parse_bpkh_data")
    IN  IF p2.raised THEN Ended(p2, cache, m2, NotRun) ELSE
    LET m3   == Append(m2, "reconcile")
    IN  IF fault = "reconcile"
        THEN Ended(Raise(AdapterError("reconcile")), cache, m3, NotRun) ELSE
    LET out  == reconcile(p1.value, p2.value)
        ran  == Ran(p1.value, p2.value, out)
        m4   == Append(m3, "generate_summary")
    IN  IF fault = "generate_summary"
        THEN Ended(Raise(AdapterError("generate_summary")), cache, m4, ran) ELSE
    LET summary == generate_summary(bank, out.results, k)
        cached  == DictPut(cache, cache_key(bank_code), out.results)
        m5      == Append(m4, "results_to_dataframe")
    IN  IF fault = "results_to_dataframe"
        THEN Ended(Raise(AdapterError("results_to_dataframe")), cached, m5, ran) ELSE
    LET df_results == results_to_dataframe(bank, out.results)
    IN  Ended(Return(SuccessOutcome(bank_code, bank, summary, out.results, df_results,
                                    Len(p1.value), Len(p2.value), k)),
              cached, m5, ran)

\* (mutant) the unsupported-bank error is the one exception not caught
except_but_ValueError(e) == e.type # "ValueError"

\* (mutant) except ValueError: only the unsupported-bank error is caught
except_ValueError(e) == e.type = "ValueError"

\* except Exception as e: every exception of the try block is caught
except_Exception(e) == TRUE

\* MultiRekonService.process_reconciliation, call number k
process_reconciliation(registry, cache, bank_code, bank_file_path, bpkh_file_path, fault, k) ==
    LET body == try_body(registry, cache, bank_code, bank_file_path, bpkh_file_path, fault, k)
    IN  IF body.end.raised /\ except_Exception(body.end.value)
        THEN [body EXCEPT !.end = Return(FailureOutcome(bank_code, body.end.value, k))]
        ELSE body

\* ------------------------------------------------ process_multiple_banks
\* (mutant) the loop left at the first institution that fails
next_bank_if_success(result) == result.success

\* the loop body of process_multiple_banks has no break: the next
\* institution is processed whatever the result of this one
next_bank(result) == TRUE

\* the one element of a singleton set
The(S) == CHOOSE x \in S : TRUE

\* results[bank_code] = result, r being what the call that made result
\* ended with; a call that raised ends the loop with its exception
loop_body(acc, bank_code, r) ==
    [ end     |-> IF r.end.raised THEN r.end
                  ELSE Return(DictPut(acc.end.value, bank_code, r.end.value)),
      cache   |-> r.cache,
      invoked |-> acc.invoked \o r.invoked,
      ran     |-> IF r.ran = NotRun THEN acc.ran ELSE r.ran ]

\* for bank_code, (bank_file, bpkh_file) in bank_files.items(): ...
\* bank_files is a dict of [bank_file, bpkh_file]; acc is the loop so far
RECURSIVE process_banks(_, _, _, _)
process_banks(registry, bank_files, acc, k) ==
    IF bank_files = << >> \/ acc.end.raised THEN acc
    ELSE The({ IF r.end.raised \/ next_bank(r.end.value)
               THEN The({ process_banks(registry, Tail(bank_files), so_far, k + 1) :
                            so_far \in { loop_body(acc, Head(bank_files).key, r) } })
               ELSE loop_body(acc, Head(bank_files).key, r) :
                  r \in { process_reconciliation(registry, acc.cache,
                                                 Head(bank_files).key,
                                                 Head(bank_files).rec.bank_file,
                                                 Head(bank_files).rec.bpkh_file,
                                                 "none", k) } })

\* MultiRekonService.process_multiple_banks; its first call of
\* process_reconciliation is call number k
process_multiple_banks(registry, cache, bank_files, k) ==
    process_banks(registry, bank_files, Ended(Return(<< >>), cache, << >>, NotRun), k)

\* ------------------------------------------- the orchestrator as a machine
\* institution codes a caller passes: the two registered ones and one for
\* which __init__ registers no adapter
Codes == { "BTPN", "BPS", "MSI" }

\* the source files a caller passes: one that cannot be opened, an empty
\* sheet, a sheet of one row, a sheet of two rows for the same certificate
\* and account (cells with and without surrounding blanks), and a sheet of
\* one row whose yield is zero
FileNone  == Unreadable
FileEmpty == Sheet(<< >>)
FileOne ==
    Sheet(<< Row(Text("A1", TRUE), Text("001", FALSE), <<4, 3, NILAI_MANFAAT, <<2025, 5>> >>) >>)
FileTwo ==
    Sheet(<< Row(Text("A1", FALSE), Text("001", TRUE), <<4, 3, NILAI_MANFAAT, <<2025, 5>> >>),
             Row(Text("A1", FALSE), Text("001", FALSE), <<2, 1, SETORAN_AWAL, <<2025, 4>> >>) >>)
FileZero ==
    Sheet(<< Row(Text("A1", FALSE), Text("001", FALSE), <<2, 0, SETORAN_AWAL, None>>) >>)

Files == { FileNone, FileEmpty, FileOne, FileTwo, FileZero }

\* the pairs (bank_file_path, bpkh_file_path) tried: every pair of files that
\* can be opened, and a file that cannot be opened in either place
FilePairs ==
    ((Files \ {FileNone}) \X (Files \ {FileNone}))
        \cup { <<FileNone, FileOne>>, <<FileOne, FileNone>> }

\* the arguments of the calls tried: every registered code on every pair, an
\* adapter method made to raise on one pair, and the unregistered code
CallArgs ==
    { [bank_code |-> c, bank_file_path |-> p[1], bpkh_file_path |-> p[2], fault |-> "none"] :
          c \in Codes \ {"MSI"}, p \in FilePairs }
    \cup
    { [bank_code |-> c, bank_file_path |-> FileTwo, bpkh_file_path |-> FileOne, fault |-> x] :
          c \in Codes \ {"MSI"}, x \in Faults }
    \cup
    { [bank_code |-> "MSI", bank_file_path |-> FileOne, bpkh_file_path |-> FileOne,
       fault |-> "none"] }

\* self.banks as __init__ fills it
InitialBanks == << [key |-> "BTPN", rec |-> BankBTPN], [key |-> "BPS", rec |-> BankBPS] >>

\* MultiRekonService.__init__
InitService ==
    /\ banks = InitialBanks
    /\ results_cache = << >>
    /\ calls = 0
    /\ call = [op |-> "__init__"]
    /\ ret = Return(<< >>)
    /\ invoked = << >>
    /\ last_success = << >>
    /\ bank_records = << >>
    /\ bpkh_records = << >>
    /\ bpkh_lookup = << >>
    /\ rekon_results = << >>
    /\ pc = "service"

\* the latest call was process_reconciliation and its reconcile step returned
Reconciled ==
    /\ call.op = "process_reconciliation"
    /\ \E i \in 1..Len(invoked) : invoked[i] = "reconcile"
    /\ call.fault # "reconcile"

\* the history after a call of process_reconciliation for bank_code ended
Succeeded(history, bank_code, end) ==
    IF ~end.raised /\ end.value.success
    THEN DictPut(history, bank_code, end.value.results)
    ELSE history

\* the history after process_multiple_banks returned the dict of outcomes
RECURSIVE SucceededEach(_, _)
SucceededEach(history, outcomes) ==
    IF outcomes = << >> THEN history
    ELSE SucceededEach(Succeeded(history, Head(outcomes).key, Return(Head(outcomes).rec)),
                       Tail(outcomes))

SucceededAll(history, end) ==
    IF end.raised THEN history ELSE SucceededEach(history, end.value)

\* the latest call only read the service: the reconciliations tried are the
\* ones made before the first such call (a later one would start from a
\* registry and a cache already tried)
Queried ==
    call.op \notin {"__init__", "add_bank", "process_reconciliation",
                    "process_multiple_banks"}

\* service.process_reconciliation(bank_code, bank_file_path, bpkh_file_path)
ProcessReconciliation ==
    /\ ~Queried
    /\ calls < MaxCalls
    /\ \E a \in CallArgs :
         \E r \in { process_reconciliation(banks, results_cache, a.bank_code,
                                           a.bank_file_path, a.bpkh_file_path,
                                           a.fault, calls + 1) } :
             /\ call' = [ op             |-> "process_reconciliation",
                          bank_code      |-> a.bank_code,
                          bank_file_path |-> a.bank_file_path,
                          bpkh_file_path |-> a.bpkh_file_path,
                          fault          |-> a.fault ]
             /\ ret' = r.end
             /\ results_cache' = r.cache
             /\ invoked' = r.invoked
             /\ last_success' = Succeeded(last_success, a.bank_code, r.end)
             /\ IF r.ran = NotRun
                THEN UNCHANGED <<bank_records, bpkh_records, bpkh_lookup, rekon_results>>
                ELSE /\ bank_records' = r.ran[1].bank_records
                     /\ bpkh_records' = r.ran[1].bpkh_records
                     /\ bpkh_lookup' = r.ran[1].out.leftover
                     /\ rekon_results' = r.ran[1].out.results
    /\ calls' = calls + 1
    /\ UNCHANGED <<banks, pc>>

\* service.banks[bank_code].reconcile(bank_records, bpkh_records) once more,
\* on the two record lists the latest process_reconciliation reconciled
ReconcileAgain ==
    /\ Reconciled
    /\ call' = [op |-> "reconcile", bank_code |-> call.bank_code]
    /\ ret' = Return(reconcile(bank_records, bpkh_records).results)
    /\ invoked' = << "reconcile" >>
    /\ UNCHANGED <<bank_records, bpkh_records, bpkh_lookup, rekon_results, pc,
                   banks, results_cache, calls, last_success>>

\* the dicts bank_files tried: up to n institutions, each code once, on the
\* calls above that no adapter method is made to raise in and that have no
\* empty sheet
BankFileEntries ==
    { [key |-> a.bank_code,
       rec |-> [bank_file |-> a.bank_file_path, bpkh_file |-> a.bpkh_file_path]] :
          a \in { b \in CallArgs : /\ b.fault = "none"
                                   /\ b.bank_file_path # FileEmpty
                                   /\ b.bpkh_file_path # FileEmpty } }

BankFiles(n) ==
    { d \in SeqsUpTo(BankFileEntries, n) :
          \A i, j \in 1..Len(d) : d[i].key = d[j].key => i = j }

\* service.process_multiple_banks(bank_files)
ProcessMultipleBanks ==
    /\ ~Queried
    /\ calls < MaxCalls
    /\ \E bank_files \in BankFiles(MaxCalls - calls) :
         \E r \in { process_multiple_banks(banks, results_cache, bank_files, calls + 1) } :
             /\ call' = [op |-> "process_multiple_banks", bank_files |-> bank_files]
             /\ ret' = r.end
             /\ results_cache' = r.cache
             /\ invoked' = r.invoked
             /\ last_success' = SucceededAll(last_success, r.end)
             /\ calls' = calls + Len(bank_files)
             /\ IF r.ran = NotRun
                THEN UNCHANGED <<bank_records, bpkh_records, bpkh_lookup, rekon_results>>
                ELSE /\ bank_records' = r.ran[1].bank_records
                     /\ bpkh_records' = r.ran[1].bpkh_records
                     /\ bpkh_lookup' = r.ran[1].out.leftover
                     /\ rekon_results' = r.ran[1].out.results
    /\ UNCHANGED <<banks, pc>>

\* ------------------------------------------- generate_consolidated_report
\* (mutant) the detail table put in front of the ones collected so far
all_dfs_prepend(all_dfs, df) == << df >> \o all_dfs

\* all_dfs.append(result['df_results'])
all_dfs_append(all_dfs, df) == Append(all_dfs, df)

\* result.get('success') and 'df_results' in result
has_df_results(result) ==
    /\ "success" \in DOMAIN result
    /\ result.success
    /\ "df_results" \in DOMAIN result

\* for bank_code, result in results.items(): ... all_dfs.append(...)
RECURSIVE collect_dfs(_, _)
collect_dfs(results, all_dfs) ==
    IF results = << >> THEN all_dfs
    ELSE collect_dfs(Tail(results),
                     IF has_df_results(Head(results).rec)
                     THEN all_dfs_append(all_dfs, Head(results).rec.df_results)
                     ELSE all_dfs)

\* pd.concat(all_dfs, ignore_index=True): the rows of the tables, one table
\* after the other
RECURSIVE concat(_)
concat(all_dfs) ==
    IF all_dfs = << >> THEN << >> ELSE Head(all_dfs) \o concat(Tail(all_dfs))

\* MultiRekonService.generate_consolidated_report
generate_consolidated_report(results) ==
    IF collect_dfs(results, << >>) # << >>
    THEN concat(collect_dfs(results, << >>))
    ELSE EmptyDataFrame

\* service.generate_consolidated_report(results), results being the dict the
\* latest process_multiple_banks returned
GenerateConsolidatedReport ==
    /\ call.op = "process_multiple_banks"
    /\ ~ret.raised
    /\ call' = [op |-> "generate_consolidated_report", results |-> ret.value]
    /\ ret' = Return(generate_consolidated_report(ret.value))
    /\ invoked' = << >>
    /\ UNCHANGED <<bank_records, bpkh_records, bpkh_lookup, rekon_results, pc,
                   banks, results_cache, calls, last_success>>

\* ---------------------------------------------------- get_exception_items
\* threshold: float = 0.5
threshold_default == << 1, 2 >>

\* thresholds a caller passes: None for the argument left out, 100, the
\* percentage of a result without counterpart, 0 and a negative one
Thresholds == { None, Num(100), Num(0), Num(-1) }

\* (mutant) abs(r.selisih) > threshold: the variance in place of its percentage
exceeds_by_variance(result, threshold) ==
    FracLt(threshold, Frac(Abs(result.selisih), Scale))

\* (mutant) abs(r.persentase_selisih) >= threshold
exceeds_or_equals(result, threshold) ==
    FracLe(threshold, FracAbs(result.persentase_selisih))

\* abs(r.persentase_selisih) > threshold
exceeds(result, threshold) ==
    FracLt(threshold, FracAbs(result.persentase_selisih))

\* MultiRekonService.get_exception_items
get_exception_items(registry, cache, bank_code, threshold) ==
    IF ~DictHas(cache, bank_code) THEN Return(EmptyDataFrame)
    ELSE IF ~DictHas(registry, bank_code)
    THEN Raise(Exception("KeyError", << bank_code >>))
    ELSE LET exceptions == SelectSeq(DictGet(cache, bank_code),
                                     LAMBDA r : exceeds(r, threshold))
         IN  IF exceptions # << >>
             THEN Return(results_to_dataframe(DictGet(registry, bank_code), exceptions))
             ELSE Return(EmptyDataFrame)

\* service.get_exception_items(bank_code) and
\* service.get_exception_items(bank_code, threshold)
GetExceptionItems ==
    /\ ~Queried
    /\ \E bank_code \in Codes, t \in Thresholds :
         /\ call' = [ op        |-> "get_exception_items",
                      bank_code |-> bank_code,
                      threshold |-> IF t = None THEN threshold_default ELSE t ]
         /\ ret' = get_exception_items(banks, results_cache, bank_code,
                                       IF t = None THEN threshold_default ELSE t)
    /\ invoked' = << >>
    /\ UNCHANGED <<bank_records, bpkh_records, bpkh_lookup, rekon_results, pc,
                   banks, results_cache, calls, last_success>>

\* ---------------------------------------------------------- calculate_kpis
\* round(x, ndigits) of a value that is not negative: the nearest multiple
\* of 10^-ndigits, the even one of two equally near
round(x, ndigits) ==
    LET n == x[1] * 10^ndigits
        q == n \div x[2]
        r == n % x[2]
    IN  Frac(IF 2 * r < x[2] THEN q
             ELSE IF 2 * r > x[2] THEN q + 1
             ELSE IF q % 2 = 0 THEN q ELSE q + 1,
             10^ndigits)

\* result.get('success') and 'summary' in result
has_summary(result) ==
    /\ "success" \in DOMAIN result
    /\ result.success
    /\ "summary" \in DOMAIN result

\* total += summary[field], over the outcomes that have a summary
RECURSIVE kpi_total(_, _)
kpi_total(results, field) ==
    IF results = << >> THEN 0
    ELSE (IF has_summary(Head(results).rec) THEN Head(results).rec.summary[field] ELSE 0)
         + kpi_total(Tail(results), field)

\* abs(total_selisih / total_bank * 100) if total_bank > 0 else 0
variance_rate(total_selisih, total_bank) ==
    IF total_bank > 0 THEN FracAbs(Frac(total_selisih * 100, total_bank)) ELSE Num(0)

\* max(0, 100 - variance_rate * 100)
quality_score(rate) == FracMax(Num(0), FracSub(Num(100), FracMul(rate, Num(100))))

\* accuracy_score * 0.6 + quality_score * 0.4
overall_score(accuracy, quality) ==
    FracAdd(FracMul(accuracy, << 3, 5 >>), FracMul(quality, << 2, 5 >>))

\* (mutant) the bands entered above their thresholds only
kpi_status_above(overall) ==
    IF FracLt(Num(95), overall) THEN "Excellent"
    ELSE IF FracLt(Num(85), overall) THEN "Good"
    ELSE IF FracLt(Num(70), overall) THEN "Fair"
    ELSE "Poor"

\* 'Excellent' if overall_score >= 95 else 'Good' if overall_score >= 85
\* else 'Fair' if overall_score >= 70 else 'Poor'
kpi_status(overall) ==
    IF FracLe(Num(95), overall) THEN "Excellent"
    ELSE IF FracLe(Num(85), overall) THEN "Good"
    ELSE IF FracLe(Num(70), overall) THEN "Fair"
    ELSE "Poor"

\* MultiRekonService.calculate_kpis
calculate_kpis(results) ==
    LET total_records == kpi_total(results, "total_records")
        total_matched == kpi_total(results, "matched_records")
        total_selisih == kpi_total(results, "total_selisih")
        total_bank    == kpi_total(results, "total_imbal_hasil_bank")
        rate          == match_rate(total_matched, total_records)
        variance      == variance_rate(total_selisih, total_bank)
        accuracy      == rate
        quality       == quality_score(variance)
        overall       == overall_score(accuracy, quality)
    IN  [ total_records  |-> total_records,
          total_matched  |-> total_matched,
          match_rate     |-> round(rate, 2),
          total_selisih  |-> total_selisih,
          variance_rate  |-> round(variance, 4),
          accuracy_score |-> round(accuracy, 2),
          quality_score  |-> round(quality, 2),
          overall_score  |-> round(overall, 2),
          status         |-> kpi_status(overall) ]

\* a successful outcome as far as calculate_kpis reads it: records, matched
\* records, total variance and total primary yield (in sub-units)
KpiOutcome(total_records, matched_records, total_selisih, total_bank) ==
    [ success |-> TRUE,
      summary |-> [ total_records          |-> total_records,
                    matched_records        |-> matched_records,
                    total_selisih          |-> total_selisih,
                    total_imbal_hasil_bank |-> total_bank ] ]

\* outcomes a caller holds for one institution: a failure, and summaries
\* whose scores lie on, between and beside the thresholds of the bands
KpiOutcomes ==
    { [success |-> FALSE, error |-> << "Bank", "MSI", "not supported" >>],
      KpiOutcome(0, 0, 0, 0),
      KpiOutcome(12, 11, 0, 1000),
      KpiOutcome(4, 3, 0, 1000),
      KpiOutcome(4, 2, 0, 1000),
      KpiOutcome(20, 19, -1, 250),
      KpiOutcome(8, 8, 3, 1000),
      KpiOutcome(3, 1, 40, 0),
      KpiOutcome(3, 3, 1, 800) }

\* the dict results of calculate_kpis a caller builds from them
KpiResults ==
    { << [key |-> "BTPN", rec |-> o] >> : o \in KpiOutcomes }
      \cup { << [key |-> "BTPN", rec |-> o1], [key |-> "BPS", rec |-> o2] >> :
               o1 \in KpiOutcomes, o2 \in KpiOutcomes }

\* service.calculate_kpis(results), results being the dict the latest
\* process_multiple_banks returned or, on a new service, one of KpiResults
CalculateKpis ==
    /\ ~Queried
    /\ \E results \in (IF call.op = "process_multiple_banks" /\ ~ret.raised
                       THEN { ret.value } ELSE { })
                        \cup (IF calls = 0 THEN KpiResults ELSE { }) :
         /\ call' = [op |-> "calculate_kpis", results |-> results]
         /\ ret' = Return(calculate_kpis(results))
    /\ invoked' = << >>
    /\ UNCHANGED <<bank_records, bpkh_records, bpkh_lookup, rekon_results, pc,
                   banks, results_cache, calls, last_success>>

\* ----------------------------------------------------------------- add_bank
\* (mutant) the registry replaced by the one entry
add_bank_alone(registry, bank_code, bank_instance) ==
    << [key |-> bank_code, rec |-> bank_instance] >>

\* (mutant) a registered code keeps the adapter it has
add_bank_if_new(registry, bank_code, bank_instance) ==
    IF DictHas(registry, bank_code) THEN registry
    ELSE DictPut(registry, bank_code, bank_instance)

\* self.banks[bank_code] = bank_instance
add_bank(registry, bank_code, bank_instance) ==
    DictPut(registry, bank_code, bank_instance)

\* the registrations tried: an adapter for the code __init__ registers none
\* for, and another adapter in the place of a registered one
Registrations ==
    { [bank_code |-> "MSI",  bank_instance |-> BankMandiriSyariah],
      [bank_code |-> "BTPN", bank_instance |-> BankBNISyariah] }

\* service.add_bank(bank_code, bank_instance)
AddBank ==
    /\ ~Queried
    /\ calls < MaxCalls
    /\ \E a \in Registrations :
         /\ call' = [op |-> "add_bank", bank_code |-> a.bank_code,
                     bank_instance |-> a.bank_instance]
         /\ banks' = add_bank(banks, a.bank_code, a.bank_instance)
    /\ ret' = Return(<< >>)
    /\ invoked' = << >>
    /\ calls' = calls + 1
    /\ UNCHANGED <<bank_records, bpkh_records, bpkh_lookup, rekon_results, pc,
                   results_cache, last_success>>

NextService ==
    \/ ProcessReconciliation
    \/ ProcessMultipleBanks
    \/ ReconcileAgain
    \/ GenerateConsolidatedReport
    \/ GetExceptionItems
    \/ CalculateKpis
    \/ AddBank

SpecService == InitService /\ [][NextService]_vars

IsProcessReconciliation ==
    /\ calls' = calls + 1
    /\ call'.op = "process_reconciliation"

\* C12: process_reconciliation called with a code that is not in the
\* registry returns (it does not raise) the failure outcome
\* {success = false, bank_code, error, timestamp} for that code, invokes no
\* adapter method and leaves the result cache as it was.
C12_UnsupportedCodeFails ==
    [][ (IsProcessReconciliation /\ ~DictHas(banks, call'.bank_code)) =>
            /\ ~ret'.raised
            /\ ret'.value = [ success   |-> FALSE,
                              bank_code |-> call'.bank_code,
                              error     |-> << "Bank", call'.bank_code, "not supported" >>,
                              timestamp |-> now(calls', 2) ]
            /\ invoked' = << >>
            /\ results_cache' = results_cache ]_vars

\* an unsupported code passed to a service whose cache holds results
C12_Witness ==
    /\ call.op = "process_reconciliation"
    /\ ~DictHas(banks, call.bank_code)
    /\ call.bank_file_path.readable /\ call.bpkh_file_path.readable
    /\ results_cache # << >>
    /\ ~ret.raised
    /\ ~ret.value.success
    /\ ret.value.bank_code = call.bank_code
    /\ invoked = << >>

\* ------------------------------------------------------------------ C13
\* the latest call was process_reconciliation for a registered code
CalledRegistered ==
    /\ call.op = "process_reconciliation"
    /\ DictHas(banks, call.bank_code)

\* what the first step of that call to raise says, if one of the four steps
\* parse primary, parse counterparty, reconcile, summarize raises
RaisedMessage ==
    IF ~call.bank_file_path.readable THEN << << "cannot open", "bank_file_path" >> >>
    ELSE IF ~call.bpkh_file_path.readable THEN << << "cannot open", "bpkh_file_path" >> >>
    ELSE IF call.fault \in {"reconcile", "generate_summary"}
         THEN << << "adapter error", call.fault >> >>
    ELSE << >>

\* C13: an exception raised while parsing the primary source, parsing the
\* counterparty source, reconciling or summarizing inside
\* process_reconciliation is caught and turned into an outcome with
\* success = false and the error message; process_reconciliation never ends
\* by raising.
C13_ExceptionsBecomeFailures ==
    /\ call.op = "process_reconciliation" => ~ret.raised
    /\ (CalledRegistered /\ RaisedMessage # << >>) =>
           /\ ~ret.value.success
           /\ ret.value.error = RaisedMessage[1]
           /\ ret.value.bank_code = call.bank_code

\* summarize raises after both parses and reconcile went through
C13_Witness ==
    /\ CalledRegistered
    /\ call.fault = "generate_summary"
    /\ invoked = << "parse_bank_data", "parse_bpkh_data", "reconcile", "generate_summary" >>
    /\ ~ret.raised
    /\ ~ret.value.success
    /\ ret.value.error = << "adapter error", "generate_summary" >>

\* ------------------------------------------------------------------ C14
\* an outcome without the instants it was made at
SansTime(outcome) ==
    IF outcome.success
    THEN [outcome EXCEPT !.timestamp = None, !.summary = [@ EXCEPT !.timestamp = None]]
    ELSE [outcome EXCEPT !.timestamp = None]

\* what process_reconciliation returns for entry e of bank_files when it is
\* the only reconciliation made on a service with the same registrations
\* (the loop registers nothing) and nothing cached
Alone(e) ==
    process_reconciliation(banks, << >>, e.key, e.rec.bank_file, e.rec.bpkh_file,
                           "none", 1).end.value

\* C14: process_multiple_banks returns one outcome per institution code of
\* its input map, in the order of the map, and each outcome is the one
\* process_reconciliation returns for that institution alone (up to the
\* timestamps): an institution that fails neither ends the loop nor changes
\* the outcome or the cached results of another one.
C14_EachBankAsAlone ==
    call.op = "process_multiple_banks" =>
        /\ ~ret.raised
        /\ Len(ret.value) = Len(call.bank_files)
        /\ \A i \in 1..Len(call.bank_files) :
               /\ ret.value[i].key = call.bank_files[i].key
               /\ SansTime(ret.value[i].rec) = SansTime(Alone(call.bank_files[i]))
               /\ Alone(call.bank_files[i]).success =>
                      /\ DictHas(results_cache, call.bank_files[i].key)
                      /\ DictGet(results_cache, call.bank_files[i].key)
                             = Alone(call.bank_files[i]).results

\* an unsupported code, then a source that cannot be opened, then an
\* institution that succeeds
C14_Witness ==
    /\ call.op = "process_multiple_banks"
    /\ Len(call.bank_files) = 2
    /\ ~call.bank_files[1].rec.bank_file.readable
    /\ ~ret.raised
    /\ ~ret.value[1].rec.success
    /\ ret.value[2].rec.success
    /\ Len(ret.value[2].rec.results) = 2
    /\ DictGet(results_cache, call.bank_files[2].key) = ret.value[2].rec.results

\* ------------------------------------------------------------------ C15
\* the entry of a dict for a code, << >> when it has none
Entry(d, c) == IF DictHas(d, c) THEN << DictGet(d, c) >> ELSE << >>

\* C15: after any sequence of process_reconciliation calls, the cache entry
\* of an institution code is exactly the result list of the most recent
\* successful process_reconciliation for that code, and a code without a
\* successful call has no entry (so a successful call for one code leaves
\* the entries of the other codes alone).
C15_AsStated ==
    \A c \in Codes : Entry(results_cache, c) = Entry(last_success, c)

\* ------------------------------------------------------------------ C16
\* the number of detail rows the outcomes before position i contribute
RECURSIVE RowsBefore(_, _)
RowsBefore(outcomes, i) ==
    IF i = 1 THEN 0
    ELSE RowsBefore(outcomes, i - 1)
         + (IF outcomes[i - 1].rec.success
            THEN Len(outcomes[i - 1].rec.df_results) ELSE 0)

\* C16: the consolidated report holds exactly the detail rows of the
\* outcomes with success = TRUE: the rows of each such outcome stand
\* together, in their order in its detail table, after the rows of the
\* successful outcomes before it in the outcome map; failed outcomes add no
\* row, and the report is empty when no outcome succeeded.
C16_ConsolidatedRows ==
    call.op = "generate_consolidated_report" =>
        LET outcomes == call.results
            report   == ret.value
        IN  /\ ~ret.raised
            /\ Len(report) = RowsBefore(outcomes, Len(outcomes) + 1)
            /\ \A i \in 1..Len(outcomes) :
                 outcomes[i].rec.success =>
                   \A n \in 1..Len(outcomes[i].rec.df_results) :
                     report[RowsBefore(outcomes, i) + n] = outcomes[i].rec.df_results[n]
            /\ (\A i \in 1..Len(outcomes) : ~outcomes[i].rec.success)
                 => report = EmptyDataFrame

\* a report over two successful outcomes with different rows
C16_Witness ==
    /\ call.op = "generate_consolidated_report"
    /\ Len(call.results) = 2
    /\ call.results[1].rec.success
    /\ call.results[2].rec.success
    /\ Len(call.results[1].rec.df_results) >= 1
    /\ Len(call.results[2].rec.df_results) >= 2
    /\ ret.value[1] # ret.value[Len(ret.value)]
    /\ Len(ret.value) >= 3

\* ------------------------------------------------------------------ C17
\* positions of the cached results of the call's institution whose variance
\* percentage is, in absolute value, strictly above the call's threshold
Above ==
    { i \in 1..Len(DictGet(results_cache, call.bank_code)) :
        LET pct == DictGet(results_cache, call.bank_code)[i].persentase_selisih
        IN  Abs(pct[1]) * call.threshold[2] > call.threshold[1] * pct[2] }

\* C17: exception extraction for an institution returns exactly the cached
\* results of that institution whose |variance percentage| is strictly
\* greater than the threshold (0.5 when the caller passes none), one row per
\* such result and in the results' order, and an empty table when the
\* institution has no cached results.
C17_ExceptionItems ==
    call.op = "get_exception_items" =>
        /\ ~ret.raised
        /\ IF ~DictHas(results_cache, call.bank_code)
           THEN ret.value = EmptyDataFrame
           ELSE LET cached == DictGet(results_cache, call.bank_code)
                IN  /\ Len(ret.value) = Cardinality(Above)
                    /\ \A i \in Above :
                         LET row == ret.value[Cardinality({ j \in Above : j <= i })]
                         IN  /\ row.Nomor_Bilyet = cached[i].nomor_bilyet
                             /\ row.Nomor_Rekening = cached[i].nomor_rekening
                             /\ row.Selisih = cached[i].selisih
                             /\ row.Selisih_pct = cached[i].persentase_selisih
                             /\ row.Status = cached[i].status
                             /\ row.Imbal_Hasil_Bank = cached[i].imbal_hasil_bank
                             /\ row.Imbal_Hasil_BPKH = cached[i].imbal_hasil_bpkh

\* two cached results, the first at or below the threshold and left out, the
\* second above it and returned
C17_Witness ==
    /\ call.op = "get_exception_items"
    /\ DictHas(results_cache, call.bank_code)
    /\ Len(DictGet(results_cache, call.bank_code)) = 2
    /\ Above = { 2 }
    /\ Len(ret.value) = 1

\* a cached result whose percentage equals the threshold is left out
C17_WitnessStrict ==
    /\ call.op = "get_exception_items"
    /\ call.threshold = Num(100)
    /\ DictHas(results_cache, call.bank_code)
    /\ \E i \in 1..Len(DictGet(results_cache, call.bank_code)) :
         FracAbs(DictGet(results_cache, call.bank_code)[i].persentase_selisih) = Num(100)
    /\ ret.value = EmptyDataFrame

\* ------------------------------------------------------------------ C18
\* the latest call was a process_reconciliation that succeeded: its outcome
\* holds the result set and the summary generate_summary made of it
Summarised ==
    /\ call.op = "process_reconciliation"
    /\ ~ret.raised
    /\ ret.value.success

\* how many results of the outcome have the status
CountStatus(status) ==
    Cardinality({ i \in 1..Len(ret.value.results) : ret.value.results[i].status = status })

\* C18: for every result set, generate_summary returns a match rate equal to
\* matched / total x 100, between 0 and 100, and 0 when the set is empty,
\* and a variance percentage equal to total variance / total primary yield
\* x 100, and 0 when the total primary yield is 0; neither is the outcome
\* of a division by zero.
C18_RatesWellDefined ==
    Summarised =>
        LET summary == ret.value.summary
            total   == Len(ret.value.results)
            matched == CountStatus(MATCHED)
            rate    == summary.match_rate
            pct     == summary.pct_selisih
        IN  /\ rate # ZeroDivisionError
            /\ pct # ZeroDivisionError
            /\ summary.total_records = total
            /\ summary.matched_records = matched
            /\ rate[2] > 0
            /\ 0 <= rate[1]
            /\ rate[1] <= 100 * rate[2]
            /\ total = 0 => rate = Num(0)
            /\ total # 0 => rate[1] * total = matched * 100 * rate[2]
            /\ pct[2] > 0
            /\ summary.total_imbal_hasil_bank = 0 => pct = Num(0)
            /\ summary.total_imbal_hasil_bank # 0 =>
                 pct[1] * summary.total_imbal_hasil_bank
                   = summary.total_selisih * 100 * pct[2]

\* the summary of an empty result set
C18_Witness ==
    /\ Summarised
    /\ ret.value.results = << >>
    /\ ret.value.summary.match_rate = Num(0)
    /\ ret.value.summary.pct_selisih = Num(0)

\* the summary of a result set without primary yield that is not empty
C18_WitnessNoYield ==
    /\ Summarised
    /\ ret.value.results # << >>
    /\ ret.value.summary.total_imbal_hasil_bank = 0
    /\ ret.value.summary.total_selisih # 0

\* the summaries of result sets all matched, all mismatched, and mixed
C18_WitnessAllMatched ==
    Summarised /\ Len(ret.value.results) >= 1
               /\ CountStatus(MATCHED) = Len(ret.value.results)

C18_WitnessNoneMatched ==
    Summarised /\ Len(ret.value.results) >= 1 /\ CountStatus(MATCHED) = 0
               /\ ret.value.summary.total_imbal_hasil_bank # 0

C18_WitnessMixed ==
    Summarised /\ CountStatus(MATCHED) >= 1
               /\ CountStatus(MATCHED) < Len(ret.value.results)

\* ------------------------------------------------------------------ C19
\* the sum of a summary field over the successful outcomes of the call
KpiSum(field) ==
    LET upto[i \in 0..Len(call.results)] ==
            IF i = 0 THEN 0
            ELSE upto[i - 1] + (IF call.results[i].rec.success
                                THEN call.results[i].rec.summary[field] ELSE 0)
    IN  upto[Len(call.results)]

\* the scores of the call, not rounded
KpiAccuracy ==
    IF KpiSum("total_records") > 0
    THEN Frac(KpiSum("matched_records") * 100, KpiSum("total_records")) ELSE Num(0)

KpiVariance ==
    IF KpiSum("total_imbal_hasil_bank") > 0
    THEN FracAbs(Frac(KpiSum("total_selisih") * 100, KpiSum("total_imbal_hasil_bank")))
    ELSE Num(0)

KpiQuality ==
    IF FracLt(Num(1), KpiVariance) THEN Num(0)
    ELSE FracSub(Num(100), FracMul(KpiVariance, Num(100)))

KpiOverall ==
    Frac(3 * KpiAccuracy[1] * KpiQuality[2] + 2 * KpiQuality[1] * KpiAccuracy[2],
         5 * KpiAccuracy[2] * KpiQuality[2])

\* reported is exact given to the number of decimals
Rounds(reported, exact, decimals) ==
    FracLe(FracAbs(FracSub(reported, exact)), << 1, 2 * 10^decimals >>)

\* C19: calculate_kpis sums records, matches, variance and primary yield
\* over the successful outcomes only; accuracy_score is the overall match
\* rate, quality_score is max(0, 100 - variance_rate x 100), overall_score is
\* 0.6 x accuracy_score + 0.4 x quality_score (each reported to two
\* decimals), and the band is Excellent iff overall_score >= 95, Good iff
\* 85 <= overall_score < 95, Fair iff 70 <= overall_score < 85, Poor
\* otherwise.
C19_KpiScoresAndBand ==
    call.op = "calculate_kpis" =>
        LET kpis == ret.value
        IN  /\ kpis.total_records = KpiSum("total_records")
            /\ kpis.total_matched = KpiSum("matched_records")
            /\ kpis.total_selisih = KpiSum("total_selisih")
            /\ Rounds(kpis.match_rate, KpiAccuracy, 2)
            /\ Rounds(kpis.accuracy_score, KpiAccuracy, 2)
            /\ Rounds(kpis.quality_score, KpiQuality, 2)
            /\ Rounds(kpis.overall_score, KpiOverall, 2)
            /\ kpis.status = "Excellent" <=> FracLe(Num(95), KpiOverall)
            /\ kpis.status = "Good" <=> /\ FracLe(Num(85), KpiOverall)
                                        /\ FracLt(KpiOverall, Num(95))
            /\ kpis.status = "Fair" <=> /\ FracLe(Num(70), KpiOverall)
                                        /\ FracLt(KpiOverall, Num(85))
            /\ kpis.status = "Poor" <=> FracLt(KpiOverall, Num(70))

\* a failed and a successful outcome, the overall score 85 exactly: Good
C19_Witness ==
    /\ call.op = "calculate_kpis"
    /\ Len(call.results) = 2
    /\ ~call.results[1].rec.success
    /\ call.results[2].rec.success
    /\ KpiOverall = Num(85)
    /\ ret.value.status = "Good"

\* the other bands, and the outcomes a process_multiple_banks returned
C19_WitnessExcellent ==
    call.op = "calculate_kpis" /\ KpiOverall = Num(95) /\ ret.value.status = "Excellent"

C19_WitnessFair ==
    call.op = "calculate_kpis" /\ KpiOverall = Num(70) /\ ret.value.status = "Fair"

C19_WitnessPoor ==
    /\ call.op = "calculate_kpis"
    /\ KpiSum("total_records") > 0
    /\ ret.value.status = "Poor"

\* a quality score between 0 and 100
C19_WitnessQuality ==
    /\ call.op = "calculate_kpis"
    /\ FracLt(Num(0), KpiQuality)
    /\ FracLt(KpiQuality, Num(100))

C19_WitnessService ==
    /\ call.op = "calculate_kpis"
    /\ calls = 2
    /\ Len(call.results) = 2
    /\ call.results[1].rec.success
    /\ ~call.results[2].rec.success
    /\ ret.value.total_records >= 2

\* ------------------------------------------------- the parsers on their own
\* cells of the two identity columns of a sheet: the column missing, the
\* cell empty, a cell of blanks only, and a number with blanks around it
BilyetCells   == { NoColumn, NaN, Text("", TRUE), Text("A1", TRUE) }
RekeningCells == { NoColumn, NaN, Text("", TRUE), Text("001", TRUE) }

\* most data rows of a sheet parsed
MaxRows == 2

ParsedRows ==
    { Row(b, r, <<4, 3, NILAI_MANFAAT, <<2025, 5>> >>) :
        b \in BilyetCells, r \in RekeningCells }

\* cells of the two date columns of a sheet: empty, and days 10 and 40
DateCells == { NaN, DateCell(10), DateCell(40) }

\* rows of a sheet that has the two date columns, both identity cells filled
DatedRows ==
    { [ bilyet |-> Text("A1", TRUE), rekening |-> Text("001", TRUE),
        data |-> <<4, 3, NILAI_MANFAAT, <<2025, 5>> >>,
        penempatan |-> p, jatuh_tempo |-> j ] : p \in DateCells, j \in DateCells }

\* the sheets parsed: a column is missing in every row or in none
ParsedSheets ==
    { Sheet(rows) : rows \in
        { q \in SeqsUpTo(ParsedRows, MaxRows) :
            \A i, j \in 1..Len(q) :
                /\ q[i].bilyet = NoColumn <=> q[j].bilyet = NoColumn
                /\ q[i].rekening = NoColumn <=> q[j].rekening = NoColumn }
          \cup SeqsUpTo(DatedRows, MaxRows) }

\* an adapter about to parse a file as its bank file or as its BPKH file
InitParse ==
    /\ pc = "parse"
    /\ call \in { [op |-> op, bank |-> bank, file |-> file] :
                    op \in { "parse_bank_data", "parse_bpkh_data" },
                    bank \in Adapters,
                    file \in ParsedSheets \cup { Unreadable } }
    /\ ret = Return(<< >>)
    /\ banks = InitialBanks
    /\ results_cache = << >>
    /\ calls = 0
    /\ invoked = << >>
    /\ last_success = << >>
    /\ bank_records = << >>
    /\ bpkh_records = << >>
    /\ bpkh_lookup = << >>
    /\ rekon_results = << >>

\* bank.parse_bank_data(file_path) / bank.parse_bpkh_data(file_path)
ParseData ==
    /\ pc = "parse"
    /\ pc' = "parsed"
    /\ ret' = IF call.op = "parse_bank_data"
              THEN parse_bank_data(call.bank, call.file)
              ELSE parse_bpkh_data(call.bank, call.file)
    /\ invoked' = << call.op >>
    /\ UNCHANGED <<call, banks, results_cache, calls, last_success,
                   bank_records, bpkh_records, bpkh_lookup, rekon_results>>

NextParse == ParseData

SpecParse == InitParse /\ [][NextParse]_vars

\* ------------------------------------------------------------------ C20
\* the text of an identity cell after trimming ("" for a cell that holds
\* none: the column missing, the cell empty or of blanks only)
Trimmed(cell) == IF cell.kind = "text" THEN cell.body ELSE ""

\* the rows of the parsed sheet that have both identity fields
RowsWithIdentity ==
    SelectSeq(call.file.rows,
              LAMBDA row : Trimmed(row.bilyet) # "" /\ Trimmed(row.rekening) # "")

\* C20: every record parse_bank_data or parse_bpkh_data of any adapter
\* returns has a certificate number and an account number that are not
\* empty after trimming, and a source row lacking either identity field is
\* dropped: the records returned are those of the rows that have both.
C20_AsStated ==
    (pc = "parsed" /\ ~ret.raised) =>
        /\ \A i \in 1..Len(ret.value) :
             /\ ret.value[i].nomor_bilyet # ""
             /\ ret.value[i].nomor_rekening # ""
        /\ Len(ret.value) = Len(RowsWithIdentity)
        /\ \A i \in 1..Len(ret.value) :
             /\ ret.value[i].nomor_bilyet = Trimmed(RowsWithIdentity[i].bilyet)
             /\ ret.value[i].nomor_rekening = Trimmed(RowsWithIdentity[i].rekening)

\* ------------------------------------------ calculate_expected_imbal_hasil
\* config.year_days of every adapter
year_days == 360

\* config.nisbah_rates of an adapter, keyed by DepositoType value
nisbah_rates(bank) ==
    CASE bank.bank_code = "BTPN" ->
           [t \in {"SA", "SL", "NM", "LPS"} |->
              CASE t = "NM" -> << 835, 10000 >> [] t = "LPS" -> << 45, 1000 >>
                [] OTHER -> << 93, 1000 >>]
      [] bank.bank_code = "BPS" ->
           [t \in {"SA", "SL", "NM", "LPS"} |->
              CASE t = "NM" -> << 5, 100 >> [] t = "LPS" -> << 45, 1000 >>
                [] OTHER -> << 475, 10000 >>]
      [] bank.bank_code = "BNIS" ->
           [t \in {"SA", "SL", "NM", "LPS"} |->
              CASE t = "NM" -> << 515, 10000 >> [] t = "LPS" -> << 45, 1000 >>
                [] OTHER -> << 485, 10000 >>]
      [] OTHER ->
           [t \in {"SA", "SL", "NM", "LPS"} |->
              CASE t = "NM" -> << 51, 1000 >> [] t = "LPS" -> << 45, 1000 >>
                [] OTHER -> << 48, 1000 >>]

\* the default of self.config.nisbah_rates.get(..., default)
nisbah_default(bank) ==
    CASE bank.bank_code = "BTPN" -> << 9, 100 >>
      [] bank.bank_code = "BPS"  -> << 475, 10000 >>
      [] bank.bank_code = "BNIS" -> << 485, 10000 >>
      [] OTHER                   -> << 48, 1000 >>

\* self.config.nisbah_rates.get(record.jenis_deposito.value, default)
table_rate(bank, record) ==
    IF record.jenis_deposito \in DOMAIN nisbah_rates(bank)
    THEN nisbah_rates(bank)[record.jenis_deposito]
    ELSE nisbah_default(bank)

\* (mutant) the rate of the table whatever the record declares
nisbah_of_table(bank, record) == table_rate(bank, record)

\* nisbah: BankBTPN takes record.nisbah_rate unless it is None or 0 (the
\* operands of "or"); the other adapters read the table only
nisbah(bank, record) ==
    IF bank.bank_code = "BTPN"
         /\ record.nisbah_rate # None /\ record.nisbah_rate[1] # 0
    THEN record.nisbah_rate
    ELSE table_rate(bank, record)

\* (mutant) the test of the holding period left to its first operand
no_period_if_falsy(record) ==
    record.periode_hari = None \/ record.periode_hari[1] = 0

\* not record.periode_hari or record.periode_hari <= 0
no_period(record) ==
    \/ record.periode_hari = None
    \/ record.periode_hari[1] = 0
    \/ record.periode_hari[1] <= 0

\* (record.nominal_deposito * nisbah * record.periode_hari) / year_days,
\* the principal being nominal_deposito / Scale
expected(bank, record) ==
    FracMul(FracMul(FracMul(Frac(record.nominal_deposito, Scale), nisbah(bank, record)),
                    Num(record.periode_hari[1])),
            << 1, year_days >>)

\* calculate_expected_imbal_hasil of an adapter: BankBTPN and BankBPS round
\* to two decimals, BankBNISyariah and BankMandiriSyariah do not
calculate_expected_imbal_hasil(bank, record) ==
    IF no_period(record) THEN Num(0)
    ELSE IF bank.bank_code \in {"BTPN", "BPS"}
         THEN IF FracLt(expected(bank, record), Num(0))
              THEN FracSub(Num(0), round(FracSub(Num(0), expected(bank, record)), 2))
              ELSE round(expected(bank, record), 2)
         ELSE expected(bank, record)

\* the records an expected yield is computed of: principals of 0, of half a
\* unit and of 3600 units; no declared rate, a declared rate of 0 and one of
\* 10%; a category of every rate table and one of none; the holding period
\* (an Optional[int]: None or a tuple of the one number) absent, negative,
\* zero and positive
Principals   == { 0, 1, 7200 }
DeclaredRates == { None, Num(0), << 1, 10 >> }
Categories   == { "SA", "NM", "DAU" }
Periods      == { None, <<-30>>, <<0>>, <<1>>, <<30>>, <<60>> }

YieldRecords ==
    { [ nominal_deposito |-> n, nisbah_rate |-> r, jenis_deposito |-> t,
        periode_hari |-> d ] :
          n \in Principals, r \in DeclaredRates, t \in Categories, d \in Periods }

\* an adapter about to compute the expected yield of a record
InitYield ==
    /\ pc = "yield"
    /\ call \in { [op |-> "calculate_expected_imbal_hasil", bank |-> bank, record |-> record] :
                    bank \in Adapters, record \in YieldRecords }
    /\ ret = Return(<< >>)
    /\ banks = InitialBanks
    /\ results_cache = << >>
    /\ calls = 0
    /\ invoked = << >>
    /\ last_success = << >>
    /\ bank_records = << >>
    /\ bpkh_records = << >>
    /\ bpkh_lookup = << >>
    /\ rekon_results = << >>

\* bank.calculate_expected_imbal_hasil(record)
CalculateExpected ==
    /\ pc = "yield"
    /\ calls = 0
    /\ calls' = 1
    /\ ret' = Return(calculate_expected_imbal_hasil(call.bank, call.record))
    /\ UNCHANGED <<call, pc, invoked, banks, results_cache, last_success,
                   bank_records, bpkh_records, bpkh_lookup, rekon_results>>

\* bank.calculate_expected_imbal_hasil(record) once more, the record now
\* with another holding period
CalculateExpectedAgain ==
    /\ pc = "yield"
    /\ calls >= 1
    /\ calls < MaxCalls
    /\ calls' = calls + 1
    /\ \E d \in Periods :
         /\ call' = [call EXCEPT !.record.periode_hari = d]
         /\ ret' = Return(calculate_expected_imbal_hasil(call.bank, call'.record))
    /\ UNCHANGED <<pc, invoked, banks, results_cache, last_success,
                   bank_records, bpkh_records, bpkh_lookup, rekon_results>>

NextYield ==
    \/ CalculateExpected
    \/ CalculateExpectedAgain

SpecYield == InitYield /\ [][NextYield]_vars

\* ------------------------------------------------------------------ C21
\* the value of a holding period for comparison: an absent one counts as 0
Days(record) == IF record.periode_hari = None THEN 0 ELSE record.periode_hari[1]

C21_WitnessZero ==
    /\ pc = "yield"
    /\ calls = 2
    /\ call.record.periode_hari # None
    /\ call.record.periode_hari[1] < 0
    /\ call.record.nominal_deposito > 0
    /\ ret.value = Num(0)

\* ------------------------------------------------------------------ C22
\* the rate by strict precedence: the record's own declared rate when it is
\* present, else the entry of the adapter's rate table for the record's
\* category, else the adapter's fallback constant
StatedRate ==
    IF call.record.nisbah_rate # None THEN call.record.nisbah_rate
    ELSE IF call.record.jenis_deposito \in DOMAIN nisbah_rates(call.bank)
    THEN nisbah_rates(call.bank)[call.record.jenis_deposito]
    ELSE nisbah_default(call.bank)

\* principal x rate x holding days / 360 at that rate
StatedYield ==
    Frac(call.record.nominal_deposito * StatedRate[1] * call.record.periode_hari[1],
         Scale * StatedRate[2] * year_days)

\* the latest computation was for a record with a positive holding period
Accrued ==
    /\ pc = "yield"
    /\ calls >= 1
    /\ call.record.periode_hari # None
    /\ call.record.periode_hari[1] > 0

\* C22: in the expected-yield computation of every adapter the rate is
\* chosen by strict precedence: the record's own declared rate whenever it
\* is present, otherwise the rate-table entry of the record's category,
\* otherwise the adapter's fallback constant.
C22_AsStated ==
    Accrued =>
        IF call.bank.bank_code \in {"BTPN", "BPS"}
        THEN Rounds(ret.value, StatedYield, 2)
        ELSE ret.value = StatedYield

\* ------------------------------------------------------------------ C23
\* C23: for every record parse_bank_data produces, if the row has both the
\* placement and the maturity date, the holding period is maturity minus
\* placement in days when that is >= 0 and is left unset when it is
\* negative; no parsed record carries a negative holding period.
C23_AsStated ==
    (pc = "parsed" /\ call.op = "parse_bank_data" /\ ~ret.raised) =>
        /\ \A i \in 1..Len(ret.value) :
             \/ ret.value[i].periode_hari = None
             \/ ret.value[i].periode_hari[1] >= 0
        /\ Len(ret.value) = Len(call.file.rows) =>
             \A i \in 1..Len(ret.value) :
                LET placement == parse_date(row_get(call.file.rows[i], "penempatan"))
                    maturity  == parse_date(row_get(call.file.rows[i], "jatuh_tempo"))
                IN  (placement # None /\ maturity # None) =>
                      ret.value[i].periode_hari =
                        IF maturity[1] - placement[1] >= 0
                        THEN << maturity[1] - placement[1] >> ELSE None

\* ------------------------------------------------------------------ C24
\* the adapter methods of one process_reconciliation in the order of its
\* try block; a method that raises is the last one invoked
Pipeline ==
    << "parse_bank_data", "parse_bpkh_data", "reconcile", "generate_summary",
       "results_to_dataframe" >>

\* C24: within one process_reconciliation the steps run in strict order:
\* both parses return before reconcile starts, reconcile returns before
\* generate_summary starts, and the cache is written only after
\* generate_summary returned; if a parse step fails, reconcile and
\* generate_summary are not invoked and the cache is not written.
C24_StepsInOrder ==
    [][ IsProcessReconciliation =>
          /\ Len(invoked') <= Len(Pipeline)
          /\ \A i \in 1..Len(invoked') : invoked'[i] = Pipeline[i]
          /\ results_cache' # results_cache => Len(invoked') > 4
          /\ (~call'.bank_file_path.readable \/ ~call'.bpkh_file_path.readable) =>
                /\ \A i \in 1..Len(invoked') :
                     invoked'[i] \in { "parse_bank_data", "parse_bpkh_data" }
                /\ results_cache' = results_cache
                /\ rekon_results' = rekon_results
                /\ ~ret'.value.success ]_vars

\* the second parse failed on a service whose cache holds results: the
\* call invoked the two parsers and nothing else
C24_Witness ==
    /\ CalledRegistered
    /\ call.bank_file_path.readable
    /\ ~call.bpkh_file_path.readable
    /\ invoked = << "parse_bank_data", "parse_bpkh_data" >>
    /\ results_cache # << >>
    /\ ~ret.value.success

\* generate_summary raised: the cache holds no entry of the call's code
C24_WitnessSummary ==
    /\ CalledRegistered
    /\ call.fault = "generate_summary"
    /\ invoked = << "parse_bank_data", "parse_bpkh_data", "reconcile", "generate_summary" >>
    /\ ~DictHas(results_cache, call.bank_code)

\* ------------------------------------------------------------------ C25
\* C25: a process_reconciliation that returns success = false leaves the
\* result cache exactly as it was before the call: the cache entry of a
\* code changes only in calls that return success = true.
C25_AsStated ==
    [][ (IsProcessReconciliation /\ ~ret'.value.success) =>
            results_cache' = results_cache ]_vars

\* ------------------------------------------------------------------ C26
\* C26: after any sequence of add_bank, process_reconciliation and
\* process_multiple_banks, every institution code that has a cache entry is
\* a key of the adapter registry, so the adapter lookup of
\* get_exception_items for a cached code does not fail.
C26_CachedCodesRegistered ==
    /\ \A i \in 1..Len(results_cache) : DictHas(banks, results_cache[i].key)
    /\ call.op = "get_exception_items" => ~ret.raised

\* a cache entry of the code add_bank registered an adapter for, read by
\* get_exception_items
C26_Witness ==
    /\ call.op = "get_exception_items"
    /\ call.bank_code = "MSI"
    /\ DictHas(results_cache, "MSI")
    /\ DictHas(banks, "MSI")
    /\ ~ret.raised

\* ------------------------------------------------------------------ C29
\* the table without the column that names the adapter converting it
SansBank(df) ==
    [ i \in 1..Len(df) |->
        [ Nomor_Bilyet |-> df[i].Nomor_Bilyet, Nomor_Rekening |-> df[i].Nomor_Rekening,
          Jenis_Deposito |-> df[i].Jenis_Deposito,
          Nominal_Deposito |-> df[i].Nominal_Deposito,
          Imbal_Hasil_Bank |-> df[i].Imbal_Hasil_Bank,
          Imbal_Hasil_BPKH |-> df[i].Imbal_Hasil_BPKH,
          Selisih |-> df[i].Selisih, Selisih_pct |-> df[i].Selisih_pct,
          Status |-> df[i].Status, Priority |-> df[i].Priority,
          Periode |-> df[i].Periode, Notes |-> df[i].Notes ] ]

\* C29: add_bank changes only the registry entry of the given code: the
\* other entries and the result cache stay as they were, so that, after the
\* adapter of a code with cached results is overwritten,
\* get_exception_items for the code returns the results it returned before,
\* those the replaced adapter computed.
C29_AddBankFrame ==
    [][ call'.op = "add_bank" =>
          /\ results_cache' = results_cache
          /\ DictGet(banks', call'.bank_code) = call'.bank_instance
          /\ \A c \in Codes \ { call'.bank_code } : Entry(banks', c) = Entry(banks, c)
          /\ \A t \in { threshold_default, Num(100) } :
               DictHas(banks, call'.bank_code) =>
                 SansBank(get_exception_items(banks', results_cache',
                                              call'.bank_code, t).value)
                   = SansBank(get_exception_items(banks, results_cache,
                                                  call'.bank_code, t).value) ]_vars

\* results of the replaced adapter returned after the adapter of their code
\* was overwritten
C29_Witness ==
    /\ call.op = "get_exception_items"
    /\ call.bank_code = "BTPN"
    /\ DictGet(banks, "BTPN") = BankBNISyariah
    /\ DictHas(results_cache, "BTPN")
    /\ ~ret.raised
    /\ Len(ret.value) >= 1
    /\ ret.value[1].Bank = BankBNISyariah.bank_name

\* ------------------------------------------------------------------- C27
\* primary record i is the source of result i and of no other result: the
\* result at position i carries its key, its principal and its yield, and
\* the results after position NBank carry no primary yield
OneResultEach ==
    /\ Len(rekon_results) >= NBank
    /\ \A i \in 1..NBank :
           /\ ResultKey(rekon_results[i]) = Key(bank_records[i])
           /\ rekon_results[i].imbal_hasil_bank = bank_records[i].nominal_imbal_hasil
           /\ rekon_results[i].nominal_deposito = bank_records[i].nominal_deposito
           /\ rekon_results[i].status # NOT_FOUND_BANK
    /\ \A p \in TailPos : rekon_results[p].status = NOT_FOUND_BANK

\* C27: for any two inputs, duplicate keys inside a source included, reconcile
\* returns as many results as there are primary records plus distinct
\* counterparty keys that are the key of no primary record, and every primary
\* record yields exactly one result.
C27_ResultCount ==
    Returned =>
        /\ Len(rekon_results) = NBank + Cardinality(BpkhKeys \ BankKeys)
        /\ OneResultEach

\* a key borne twice in each source and a counterparty key borne twice that
\* no primary record has
C27_Witness ==
    /\ Returned
    /\ ~UniqueKeys(bank_records)
    /\ \E j, h \in 1..NBpkh :
           /\ j # h
           /\ Key(bpkh_records[j]) = Key(bpkh_records[h])
           /\ Key(bpkh_records[j]) \notin BankKeys
    /\ Len(rekon_results) = NBank + 1

\* a counterparty key borne twice that a primary record matches
C27_WitnessMatched ==
    /\ Returned
    /\ \E j, h \in 1..NBpkh, i \in 1..NBank :
           /\ j # h
           /\ Key(bpkh_records[j]) = Key(bpkh_records[h])
           /\ Key(bpkh_records[j]) = Key(bank_records[i])
    /\ Len(rekon_results) = NBank

\* ------------------------------------------------------------------- C28
\* the counts of the breakdown, added over the categories listed
RECURSIVE SumCounts(_, _)
SumCounts(by_type, types) ==
    IF types = {} THEN 0
    ELSE LET t == CHOOSE u \in types : TRUE
         IN  by_type[t].count + SumCounts(by_type, types \ {t})

\* C28: for the results of a reconcile call, the summary's total variance is
\* its total primary yield minus its total counterparty yield, the counts of
\* the per-category breakdown add up to the total record count (the number
\* of results), and no category listed has count zero.
C28_SummaryTotals ==
    Summarised =>
        LET s == ret.value.summary
        IN  /\ s.total_selisih = s.total_imbal_hasil_bank - s.total_imbal_hasil_bpkh
            /\ s.total_records = Len(ret.value.results)
            /\ SumCounts(s.by_type, DOMAIN s.by_type) = s.total_records
            /\ \A t \in DOMAIN s.by_type : s.by_type[t].count > 0

\* a summary of two categories, one result key-matched and one not found,
\* with a total variance that is not zero
C28_Witness ==
    /\ Summarised
    /\ Cardinality(DOMAIN ret.value.summary.by_type) = 2
    /\ ret.value.summary.total_records = 2
    /\ ret.value.summary.total_selisih # 0
    /\ ret.value.summary.total_imbal_hasil_bpkh # 0

\* a summary whose total variance is negative: a counterparty record that no
\* primary record matches
C28_WitnessNegative ==
    /\ Summarised
    /\ ret.value.summary.total_selisih < 0
    /\ ret.value.summary.total_imbal_hasil_bank = 0

\* the summary of no result: an empty breakdown
C28_WitnessEmpty ==
    /\ Summarised
    /\ ret.value.summary.total_records = 0
    /\ DOMAIN ret.value.summary.by_type = {}

\* ------------------------------------------------------------------- C30
\* the cached results the extraction call read
Cached == DictGet(results_cache, call.bank_code)

Extracted ==
    /\ call.op = "get_exception_items"
    /\ ~ret.raised
    /\ DictHas(results_cache, call.bank_code)

\* the table returned has a row of the result
InTable(r) ==
    \E i \in 1..Len(ret.value) :
        /\ ret.value[i].Nomor_Bilyet = r.nomor_bilyet
        /\ ret.value[i].Nomor_Rekening = r.nomor_rekening
        /\ ret.value[i].Status = r.status
        /\ ret.value[i].Selisih = r.selisih
        /\ ret.value[i].Selisih_pct = r.persentase_selisih
        /\ ret.value[i].Imbal_Hasil_Bank = r.imbal_hasil_bank
        /\ ret.value[i].Imbal_Hasil_BPKH = r.imbal_hasil_bpkh

NotFound(r) == r.status \in {NOT_FOUND_BANK, NOT_FOUND_BPKH}

\* a key-matched result whose primary yield is zero
ZeroYieldMatched(r) == ~NotFound(r) /\ r.imbal_hasil_bank = 0

\* C30: a not-found result has percentage 100 or -100 and is returned by
\* exception extraction for every threshold below 100; a key-matched result
\* whose primary yield is zero has percentage 0 and is returned for no
\* threshold that is not negative, whatever its variance and also when it is
\* classified Difference.
C30_NotFoundAndZeroYield ==
    Extracted =>
        \A p \in 1..Len(Cached) :
            /\ NotFound(Cached[p]) =>
                  /\ Cached[p].persentase_selisih \in {Num(100), Num(-100)}
                  /\ FracLt(call.threshold, Num(100)) => InTable(Cached[p])
            /\ ZeroYieldMatched(Cached[p]) =>
                  /\ Cached[p].persentase_selisih = Num(0)
                  /\ FracLe(Num(0), call.threshold) => ~InTable(Cached[p])

\* threshold 0: a key-matched result of primary yield zero, classified
\* Difference on a variance of more than one unit, is left out
C30_Witness ==
    /\ Extracted
    /\ call.threshold = Num(0)
    /\ \E p \in 1..Len(Cached) :
          /\ ZeroYieldMatched(Cached[p])
          /\ Cached[p].status = DIFFERENCE
          /\ Abs(Cached[p].selisih) > Scale
          /\ ~InTable(Cached[p])

\* a not-found result of each sign returned below 100, and left out at 100
C30_WitnessNotFoundBpkh ==
    /\ Extracted
    /\ call.threshold = Num(0)
    /\ \E p \in 1..Len(Cached) :
          Cached[p].status = NOT_FOUND_BPKH /\ InTable(Cached[p])

C30_WitnessNotFoundBank ==
    /\ Extracted
    /\ call.threshold = threshold_default
    /\ \E p \in 1..Len(Cached) :
          Cached[p].status = NOT_FOUND_BANK /\ InTable(Cached[p])

\* a negative threshold returns the key-matched result of primary yield zero
C30_WitnessNegative ==
    /\ Extracted
    /\ call.threshold = Num(-1)
    /\ \E p \in 1..Len(Cached) :
          ZeroYieldMatched(Cached[p]) /\ InTable(Cached[p])
====
